---- MODULE Spec2Model ----
(***************************************************************************)
(* SKU reconciliation engine of the warehouse backend                      *)
(* (src/backend/services/sku_mapper.py, class SKUMapperService).           *)
(*                                                                         *)
(* A Python string is a sequence of characters.  A character is a token:   *)
(* an ASCII character stands for itself, a non-ASCII code point is named   *)
(* "U+XXXX".  The Python value None of a string-typed slot is NoneStr.     *)
(***************************************************************************)
EXTENDS Integers, Sequences, FiniteSets, TLC

VARIABLES
    products,         \* rows of the products table
    listings,         \* rows of the marketplace_listings table
    patterns,         \* keys of self.patterns
    marketplace_rules,\* keys of self.marketplace_rules
    pc,               \* "idle": no call in progress; "done": a call has ended
    op,               \* the method that was called last
    arg_sku,          \* its SKU argument
    arg_marketplace,  \* its marketplace argument
    arg_list,         \* the sku_list argument of batch_map_skus
    db_fail_at,       \* the item during whose lookup the database raises, 0 for none
    ret,              \* the dictionary map_sku returned
    results,          \* the list batch_map_skus returned
    cleaned,          \* the string _clean_sku returned
    transformed,      \* the string _apply_marketplace_rules returned
    raised,           \* str(e) of the exception the call raised, "none" for a return
    found,            \* what _find_existing_product returned during map_sku
    db_log,           \* the queries the call sent to the database
    arg_mappings,     \* the mappings argument of validate_mapping_batch
    report,           \* the dictionary validate_mapping_batch returned
    cpc,              \* per concurrent caller: the line of map_sku it is at
    loc,              \* per concurrent caller: the local variables of its call
    mapping_data,     \* desktop SKUMapper.mapping_data: SKU -> MSKU
    reverse_mapping,  \* desktop SKUMapper.reverse_mapping: MSKU -> list of SKUs
    combo_products,   \* desktop SKUMapper.combo_products: MSKU -> list of SKUs
    load_ret,         \* the success flag load_mapping_data returned last
    lookup_ret,       \* the MSKU map_sku_to_msku returned last, NoneStr for None
    n_loads,          \* the files loaded so far
    sessions,         \* web API: the sessions dictionary, session id -> keys set
    uuid_count,       \* web API: the session ids uuid4 has produced
    sleeping,         \* web API: the sessions whose process_data is in time.sleep
    web_resp,         \* web API: the last response sent
    processed_ok,     \* web API: the session ids /api/process answered with success
    stored_mapping,   \* web API: the session ids a mapping upload answered with
    stored_sales,     \* web API: the session ids a sales upload answered with
    jobs,             \* backend: the committed rows of data_processing_jobs
    calls,            \* backend: per job, the call of process_file that works on it
    sales_records,    \* backend: the committed rows of sales_records
    sku_mappings,     \* backend: the rows of sku_mappings
    http,             \* backend: the last response sent
    pf_result         \* backend: the dictionary process_file returned last

vars == <<products, listings, patterns, marketplace_rules, pc, op, arg_sku,
          arg_marketplace, arg_list, db_fail_at, ret, results, cleaned, transformed,
          raised, found, db_log, arg_mappings, report, cpc, loc,
          mapping_data, reverse_mapping, combo_products, load_ret, lookup_ret, n_loads,
          sessions, uuid_count, sleeping, web_resp, processed_ok, stored_mapping,
          stored_sales, jobs, calls, sales_records, sku_mappings, http, pf_result>>

-----------------------------------------------------------------------------
(* Bounds of the model.                                                    *)

MaxLen == 3

MaxBatch == 2

-----------------------------------------------------------------------------
(* Characters.                                                             *)

UpperLetters == <<"A","B","C","D","E","F","G","H","I","J","K","L","M",
                  "N","O","P","Q","R","S","T","U","V","W","X","Y","Z">>

LowerLetters == <<"a","b","c","d","e","f","g","h","i","j","k","l","m",
                  "n","o","p","q","r","s","t","u","v","w","x","y","z">>

DigitChars == <<"0","1","2","3","4","5","6","7","8","9">>

HexDigits == <<"0","1","2","3","4","5","6","7","8","9","A","B","C","D","E","F">>

RangeOf(s) == { s[i] : i \in 1..Len(s) }

IndexOf(s, c) == CHOOSE i \in 1..Len(s) : s[i] = c

IsUpperAZ(c) == c \in RangeOf(UpperLetters)

IsLowerAZ(c) == c \in RangeOf(LowerLetters)

IsDigit(c) == c \in RangeOf(DigitChars)

\* str.isspace / regex \s
IsSpace(c) == c \in {" ", "\t"}

\* the characters of the strip('"\'') argument
IsQuote(c) == c \in {"\"", "'"}

\* regex \w on str: [a-zA-Z0-9_] and every character with str.isalnum();
\* U+01F0 (LATIN SMALL LETTER J WITH CARON) is a letter, U+030C (COMBINING
\* CARON) is a mark and is not matched.
IsWord(c) == IsUpperAZ(c) \/ IsLowerAZ(c) \/ IsDigit(c) \/ c = "_" \/ c = "U+01F0"

\* str.upper of one character; U+01F0 has no precomposed capital and
\* upper-cases to "J" followed by U+030C.
UpperChar(c) ==
    IF IsLowerAZ(c) THEN <<UpperLetters[IndexOf(LowerLetters, c)]>>
    ELSE IF c = "U+01F0" THEN <<"J", "U+030C">>
    ELSE <<c>>

\* str.lower of one character
LowerChar(c) ==
    IF IsUpperAZ(c) THEN LowerLetters[IndexOf(UpperLetters, c)] ELSE c

\* ord(c)
Ord(c) ==
    IF IsUpperAZ(c) THEN 64 + IndexOf(UpperLetters, c)
    ELSE IF IsLowerAZ(c) THEN 96 + IndexOf(LowerLetters, c)
    ELSE IF IsDigit(c) THEN 47 + IndexOf(DigitChars, c)
    ELSE IF c = "-" THEN 45
    ELSE IF c = "_" THEN 95
    ELSE IF c = " " THEN 32
    ELSE IF c = "\t" THEN 9
    ELSE IF c = "\"" THEN 34
    ELSE IF c = "'" THEN 39
    ELSE IF c = "!" THEN 33
    ELSE IF c = "," THEN 44
    ELSE IF c = "U+01F0" THEN 496
    ELSE IF c = "U+030C" THEN 780
    ELSE 63

NoneStr == <<"None">>

-----------------------------------------------------------------------------
(* String helpers (str methods and re functions used by the service).      *)

RECURSIVE StripLeft(_, _)
StripLeft(s, isSpaceOnly) ==
    IF s = <<>> THEN s
    ELSE IF (isSpaceOnly /\ IsSpace(Head(s))) \/ (~isSpaceOnly /\ IsQuote(Head(s)))
         THEN StripLeft(Tail(s), isSpaceOnly)
         ELSE s

RECURSIVE StripRight(_, _)
StripRight(s, isSpaceOnly) ==
    IF s = <<>> THEN s
    ELSE IF (isSpaceOnly /\ IsSpace(s[Len(s)])) \/ (~isSpaceOnly /\ IsQuote(s[Len(s)]))
         THEN StripRight(SubSeq(s, 1, Len(s) - 1), isSpaceOnly)
         ELSE s

\* s.strip()
Strip(s) == StripRight(StripLeft(s, TRUE), TRUE)

\* s.strip('"\'')
StripQuotes(s) == StripRight(StripLeft(s, FALSE), FALSE)

\* re.sub(r'\s+', '-', s)
RECURSIVE SubSpaceRuns(_)
SubSpaceRuns(s) ==
    IF s = <<>> THEN <<>>
    ELSE IF IsSpace(Head(s))
         THEN <<"-">> \o SubSpaceRuns(StripLeft(s, TRUE))
         ELSE <<Head(s)>> \o SubSpaceRuns(Tail(s))

\* re.sub(r'[^\w\-]', '', s)
RECURSIVE RemoveSpecial(_)
RemoveSpecial(s) ==
    IF s = <<>> THEN <<>>
    ELSE IF IsWord(Head(s)) \/ Head(s) = "-"
         THEN <<Head(s)>> \o RemoveSpecial(Tail(s))
         ELSE RemoveSpecial(Tail(s))

\* s.upper()
RECURSIVE Upper(_)
Upper(s) == IF s = <<>> THEN <<>> ELSE UpperChar(Head(s)) \o Upper(Tail(s))

\* s.startswith(p)
StartsWith(s, p) == Len(s) >= Len(p) /\ SubSeq(s, 1, Len(p)) = p

AllIn(s, lo, hi, chars) == \A i \in lo..hi : s[i] \in chars

-----------------------------------------------------------------------------
(* _clean_sku                                                              *)

_clean_sku(sku) ==
    IF sku = NoneStr \/ sku = <<>> THEN <<>>
    ELSE Upper(RemoveSpecial(SubSpaceRuns(StripQuotes(Strip(sku)))))

-----------------------------------------------------------------------------
(* Marketplace tags (Python strings, written out as character sequences).  *)

Amazon == <<"a","m","a","z","o","n">>

Ebay == <<"e","b","a","y">>

Shopify == <<"s","h","o","p","i","f","y">>

Walmart == <<"w","a","l","m","a","r","t">>

Standard == <<"s","t","a","n","d","a","r","d">>

Combo == <<"c","o","m","b","o">>

Etsy == <<"e","t","s","y">>

-----------------------------------------------------------------------------
(* self.patterns: the compiled regular expressions, as predicates on the   *)
(* string handed to pattern.match().                                       *)

\* [A-Z]
UpperAZ == RangeOf(UpperLetters)

\* [0-9], \d
Digits == RangeOf(DigitChars)

\* [A-Z0-9]
AZ09 == UpperAZ \cup Digits

\* [a-zA-Z0-9\-_]
ShopifyChars == AZ09 \cup RangeOf(LowerLetters) \cup {"-", "_"}

\* ^(B[0-9A-Z]{9}|[A-Z0-9]{10})$
MatchAmazon(s) ==
    Len(s) = 10 /\ (  (s[1] = "B" /\ AllIn(s, 2, 10, AZ09))
                   \/ AllIn(s, 1, 10, AZ09))

\* ^[0-9]{12}$
MatchEbay(s) == Len(s) = 12 /\ AllIn(s, 1, 12, Digits)

\* ^[a-zA-Z0-9\-_]{1,100}$
MatchShopify(s) == Len(s) >= 1 /\ Len(s) <= 100 /\ AllIn(s, 1, Len(s), ShopifyChars)

\* ^[A-Z0-9]{8,15}$
MatchWalmart(s) == Len(s) >= 8 /\ Len(s) <= 15 /\ AllIn(s, 1, Len(s), AZ09)

\* ^[A-Z]{2,4}-\d{4,8}$
MatchStandard(s) ==
    \E k \in 2..4 :
        /\ Len(s) >= k + 5
        /\ Len(s) <= k + 9
        /\ AllIn(s, 1, k, UpperAZ)
        /\ s[k + 1] = "-"
        /\ AllIn(s, k + 2, Len(s), Digits)

\* s.split(',')
RECURSIVE SplitComma(_, _)
SplitComma(s, cur) ==
    IF s = <<>> THEN <<cur>>
    ELSE IF Head(s) = "," THEN <<cur>> \o SplitComma(Tail(s), <<>>)
    ELSE SplitComma(Tail(s), Append(cur, Head(s)))

\* ^([A-Z]{2,4}-\d{4,8})(,([A-Z]{2,4}-\d{4,8}))*$
MatchCombo(s) ==
    LET parts == SplitComma(s, <<>>)
    IN  \A i \in 1..Len(parts) : MatchStandard(parts[i])

\* the keys of self.patterns after __init__
PatternNames == {Amazon, Ebay, Shopify, Walmart, Standard, Combo}

PatternMatch(name, s) ==
    CASE name = Amazon   -> MatchAmazon(s)
      [] name = Ebay     -> MatchEbay(s)
      [] name = Shopify  -> MatchShopify(s)
      [] name = Walmart  -> MatchWalmart(s)
      [] name = Standard -> MatchStandard(s)
      [] name = Combo    -> MatchCombo(s)

\* validate_sku(sku, marketplace)
validate_sku(sku, marketplace) ==
    IF sku = NoneStr \/ sku = <<>> \/ Strip(sku) = <<>> THEN FALSE
    ELSE LET s == Upper(Strip(sku))
         IN  IF marketplace # <<>> /\ marketplace \in patterns
             THEN PatternMatch(marketplace, s)
             ELSE \E name \in patterns : PatternMatch(name, s)

-----------------------------------------------------------------------------
(* self.marketplace_rules and the four transforms.                         *)

\* the keys of self.marketplace_rules after __init__
RuleNames == {Amazon, Ebay, Shopify, Walmart}

_process_amazon_sku(sku) ==
    IF StartsWith(sku, <<"B">>) /\ Len(sku) = 10 THEN <<"A","M","Z","-">> \o sku ELSE sku

\* Variant of the eBay rule that keeps the first 8 digits.
ProcessEbayFirstEight(sku) ==
    IF Len(sku) = 12 /\ AllIn(sku, 1, 12, Digits)
    THEN <<"E","B","Y","-">> \o SubSeq(sku, 1, 8)
    ELSE sku

_process_ebay_sku(sku) ==
    IF Len(sku) = 12 /\ AllIn(sku, 1, 12, Digits)
    THEN <<"E","B","Y","-">> \o SubSeq(sku, 5, 12)
    ELSE sku

\* re.sub(r'[^a-zA-Z0-9\-]', '', sku)
RECURSIVE KeepAlnumHyphen(_)
KeepAlnumHyphen(s) ==
    IF s = <<>> THEN <<>>
    ELSE IF IsUpperAZ(Head(s)) \/ IsLowerAZ(Head(s)) \/ IsDigit(Head(s)) \/ Head(s) = "-"
         THEN <<Head(s)>> \o KeepAlnumHyphen(Tail(s))
         ELSE KeepAlnumHyphen(Tail(s))

_process_shopify_sku(sku) == <<"S","H","O","-">> \o KeepAlnumHyphen(sku)

_process_walmart_sku(sku) ==
    IF MatchWalmart(sku) THEN <<"W","M","T","-">> \o sku ELSE sku

_apply_marketplace_rules(sku, marketplace) ==
    IF marketplace \in marketplace_rules
    THEN CASE marketplace = Amazon  -> _process_amazon_sku(sku)
           [] marketplace = Ebay    -> _process_ebay_sku(sku)
           [] marketplace = Shopify -> _process_shopify_sku(sku)
           [] marketplace = Walmart -> _process_walmart_sku(sku)
    ELSE sku

-----------------------------------------------------------------------------
(* _simple_hash: a 32-bit value is kept as two 16-bit halves so that       *)
(* h*31 + ord(c) stays within 32-bit signed integers.         *)

Half == 65536

\* ((h << 5) - h + ord(char)) & 0xFFFFFFFF
HashStep(h, c) ==
    LET lo == 31 * h.lo + Ord(c)
        hi == 31 * h.hi + (lo \div Half)
    IN  [hi |-> hi % Half, lo |-> lo % Half]

RECURSIVE HashFold(_, _)
HashFold(h, text) ==
    IF text = <<>> THEN h ELSE HashFold(HashStep(h, Head(text)), Tail(text))

\* format(n, 'X') of a 16-bit half, no padding
RECURSIVE HexOf(_)
HexOf(n) ==
    IF n < 16 THEN <<HexDigits[n + 1]>>
    ELSE HexOf(n \div 16) \o <<HexDigits[(n % 16) + 1]>>

\* format(n, '04X') of a 16-bit half
Hex4(n) ==
    <<HexDigits[(n \div 4096) + 1], HexDigits[((n \div 256) % 16) + 1],
      HexDigits[((n \div 16) % 16) + 1], HexDigits[(n % 16) + 1]>>

\* format(abs(hash_value), 'X')
FormatHex(h) == IF h.hi = 0 THEN HexOf(h.lo) ELSE HexOf(h.hi) \o Hex4(h.lo)

Take(s, n) == SubSeq(s, 1, IF Len(s) < n THEN Len(s) ELSE n)

_simple_hash(text) == Take(FormatHex(HashFold([hi |-> 0, lo |-> 0], text)), 6)

-----------------------------------------------------------------------------
(* Python floats of the scorer.  A confidence value is the code 100*k + u: *)
(* the binary64 number nearest to k/10, moved u units in the last place    *)
(* (u in -1..1).  0.7999999999999999 is 799, 0.8 is 800,                   *)
(* 1.2000000000000002 is 1201.                                             *)

F(tenths) == 100 * tenths

\* x + y in binary64, round to nearest even, for x a value the scorer can
\* hold and y one of its increments 0.1, 0.2, 0.3.  The sum is the nearest
\* double of the decimal sum except in the listed cases:
\*   0.7 + 0.1 = 0.7999999999999999, 0.7999999999999999 + 0.1 =
\*   0.8999999999999999, 1.1 + 0.1 = 1.2000000000000002.
\* Variant of the addition that is exact in decimal.
FloatAddDecimal(x, y) == x + y

FloatAdd(x, y) ==
    IF x = F(7) /\ y = F(1) THEN F(8) - 1
    ELSE IF x = F(8) - 1 /\ y = F(1) THEN F(9) - 1
    ELSE IF x = F(11) /\ y = F(1) THEN F(12) + 1
    ELSE x + y

FloatMin(x, y) == IF x < y THEN x ELSE y


-----------------------------------------------------------------------------
(* fuzzywuzzy, as called by _fuzzy_match_product:                          *)
(* process.extractOne(sku, choices, scorer=fuzz.ratio) with the default    *)
(* processor utils.full_process and difflib.SequenceMatcher.               *)

\* utils.full_process: every non-word character becomes a blank, the
\* string is lower-cased and stripped.
RECURSIVE BlankNonWord(_)
BlankNonWord(s) ==
    IF s = <<>> THEN <<>>
    ELSE <<IF IsWord(Head(s)) THEN LowerChar(Head(s)) ELSE " ">> \o BlankNonWord(Tail(s))

full_process(s) == Strip(BlankNonWord(s))

\* length of the common run of a from i and b from j
RECURSIVE CommonLen(_, _, _, _)
CommonLen(a, i, b, j) ==
    IF i > Len(a) \/ j > Len(b) \/ a[i] # b[j] THEN 0
    ELSE 1 + CommonLen(a, i + 1, b, j + 1)

MaxOf(S) == CHOOSE x \in S : \A y \in S : y <= x

MinOf(S) == CHOOSE x \in S : \A y \in S : x <= y

\* the longest common block of a and b has length k: where it starts,
\* earliest in a, and of those earliest in b
BlockAt(a, b, k) ==
    LET bi == MinOf({ i \in 1..Len(a) : \E j \in 1..Len(b) : CommonLen(a, i, b, j) = k })
    IN  [i |-> bi, j |-> MinOf({ j \in 1..Len(b) : CommonLen(a, bi, b, j) = k }), k |-> k]

\* SequenceMatcher.find_longest_match
find_longest_match(a, b) ==
    IF a = <<>> \/ b = <<>> THEN [i |-> 1, j |-> 1, k |-> 0]
    ELSE BlockAt(a, b, MaxOf({ CommonLen(a, i, b, j) : i \in 1..Len(a), j \in 1..Len(b) }))

\* sum of the sizes of SequenceMatcher.get_matching_blocks(): the longest
\* block m, and the blocks to its left and to its right
RECURSIVE MatchingChars(_, _)
RECURSIVE BlocksAround(_, _, _)
BlocksAround(a, b, m) ==
    IF m.k = 0 THEN 0
    ELSE m.k + MatchingChars(SubSeq(a, 1, m.i - 1), SubSeq(b, 1, m.j - 1))
             + MatchingChars(SubSeq(a, m.i + m.k, Len(a)), SubSeq(b, m.j + m.k, Len(b)))

MatchingChars(a, b) == BlocksAround(a, b, find_longest_match(a, b))

\* int(round(100 * 2.0 * M / T)), round half to even
RoundRatio(m, t) ==
    LET q == (200 * m) \div t
        r == (200 * m) % t
    IN  IF 2 * r > t THEN q + 1
        ELSE IF 2 * r < t THEN q
        ELSE IF q % 2 = 0 THEN q ELSE q + 1

\* fuzz.ratio with its decorators check_for_equivalence, check_empty_string
fuzz_ratio(s1, s2) ==
    IF s1 = s2 THEN 100
    ELSE IF s1 = <<>> \/ s2 = <<>> THEN 0
    ELSE RoundRatio(MatchingChars(s1, s2), Len(s1) + Len(s2))

NoMatch == [choice |-> NoneStr, score |-> -1]

\* the first choice of maximal score
BestChoice(choices, score) ==
    LET best == MaxOf({ score[n] : n \in 1..Len(choices) })
    IN  [choice |-> choices[MinOf({ n \in 1..Len(choices) : score[n] = best })],
         score |-> best]

Scores(q, choices) == [n \in 1..Len(choices) |-> fuzz_ratio(q, full_process(choices[n]))]

\* process.extractOne: None for no choices
extractOne(query, choices) ==
    IF choices = <<>> THEN NoMatch
    ELSE BestChoice(choices, Scores(full_process(query), choices))

-----------------------------------------------------------------------------
(* The catalog: rows of products and marketplace_listings in table order.  *)

NoProduct == [id |-> "None", sku |-> NoneStr, msku |-> NoneStr, name |-> "None"]

\* truth value of a str-or-None column value
Truthy(s) == s # NoneStr /\ s # <<>>

\* query.first(): the first row, or None
First(rows) == IF rows = <<>> THEN NoProduct ELSE rows[1]

ProductBySku(sku) == LET P(p) == p.sku = sku IN First(SelectSeq(products, P))

ProductByMsku(msku) == LET P(p) == p.msku = msku IN First(SelectSeq(products, P))

ProductById(id) == LET P(p) == p.id = id IN First(SelectSeq(products, P))

\* listing.product of the first listing with this marketplace_sku and platform
ProductByListing(sku, marketplace) ==
    LET P(l) == l.marketplace_sku = sku /\ l.platform = marketplace
        hits == SelectSeq(listings, P)
    IN  IF hits = <<>> THEN NoProduct ELSE ProductById(hits[1].product_id)

FuzzyThreshold == 80

SkuColumn == LET ps == SelectSeq(products, LAMBDA p : Truthy(p.sku))
             IN  [n \in 1..Len(ps) |-> ps[n].sku]

MskuColumn == LET ps == SelectSeq(products, LAMBDA p : Truthy(p.msku))
              IN  [n \in 1..Len(ps) |-> ps[n].msku]

\* Variant of the threshold tests that asks for a score above the threshold.
FuzzyPickAbove(m1, m2) ==
    IF m1 # NoMatch /\ m1.score > FuzzyThreshold THEN ProductBySku(m1.choice)
    ELSE IF m2 # NoMatch /\ m2.score > FuzzyThreshold THEN ProductByMsku(m2.choice)
    ELSE NoProduct

\* the two threshold tests of _fuzzy_match_product, m1 the best sku
\* candidate and m2 the best msku candidate
FuzzyPick(m1, m2) ==
    IF m1 # NoMatch /\ m1.score >= FuzzyThreshold THEN ProductBySku(m1.choice)
    ELSE IF m2 # NoMatch /\ m2.score >= FuzzyThreshold THEN ProductByMsku(m2.choice)
    ELSE NoProduct

_fuzzy_match_product(sku) ==
    IF products = <<>> THEN NoProduct
    ELSE FuzzyPick(extractOne(sku, SkuColumn), extractOne(sku, MskuColumn))

\* Variant of the lookup order that asks for the msku before the sku.
FirstHitMskuFirst(bySku, byMsku, byListing, byFuzzy) ==
    IF byMsku # NoProduct
    THEN [product |-> byMsku, by |-> "msku", log |-> <<"msku">>]
    ELSE IF bySku # NoProduct
    THEN [product |-> bySku, by |-> "sku", log |-> <<"msku", "sku">>]
    ELSE IF byListing # NoProduct
    THEN [product |-> byListing, by |-> "listing", log |-> <<"msku", "sku", "listing">>]
    ELSE [product |-> byFuzzy, by |-> IF byFuzzy = NoProduct THEN "none" ELSE "fuzzy",
          log |-> <<"msku", "sku", "listing", "all">>]

\* the order of the four steps of _find_existing_product: the product
\* found and the step that found it
FirstHit(bySku, byMsku, byListing, byFuzzy) ==
    IF bySku # NoProduct
    THEN [product |-> bySku, by |-> "sku", log |-> <<"sku">>]
    ELSE IF byMsku # NoProduct
    THEN [product |-> byMsku, by |-> "msku", log |-> <<"sku", "msku">>]
    ELSE IF byListing # NoProduct
    THEN [product |-> byListing, by |-> "listing", log |-> <<"sku", "msku", "listing">>]
    ELSE [product |-> byFuzzy, by |-> IF byFuzzy = NoProduct THEN "none" ELSE "fuzzy",
          log |-> <<"sku", "msku", "listing", "all">>]

_find_existing_product(mapped_sku, marketplace) ==
    FirstHit(ProductBySku(mapped_sku), ProductByMsku(mapped_sku),
             ProductByListing(mapped_sku, marketplace), _fuzzy_match_product(mapped_sku))

-----------------------------------------------------------------------------
(* Scoring, canonical id and notes.                                        *)

HasHyphen(s) == \E i \in 1..Len(s) : s[i] = "-"

\* Variant of _generate_msku that always synthesizes an id.
GenerateAlwaysNew(mapped_sku, marketplace, existing_product) ==
    <<"W","M","S","-">> \o Take(Upper(marketplace), 3) \o <<"-">> \o _simple_hash(mapped_sku)

_generate_msku(mapped_sku, marketplace, existing_product) ==
    IF existing_product # NoProduct /\ Truthy(existing_product.msku)
    THEN existing_product.msku
    ELSE IF existing_product # NoProduct
    THEN existing_product.sku
    ELSE <<"W","M","S","-">> \o Take(Upper(marketplace), 3) \o <<"-">>
         \o _simple_hash(mapped_sku)

\* confidence += inc if cond
Bonus(confidence, cond, inc) == IF cond THEN FloatAdd(confidence, inc) ELSE confidence

\* Variant of the match step in which an exact match only adds 0.3.
MatchBonusNoOverride(confidence, existing_product, mapped_sku) ==
    IF existing_product # NoProduct THEN FloatAdd(confidence, F(3)) ELSE confidence

\* the match step of _calculate_confidence: +0.3, or 1.0 for an exact match
MatchBonus(confidence, existing_product, mapped_sku) ==
    IF existing_product # NoProduct
    THEN IF existing_product.sku = mapped_sku THEN F(10) ELSE FloatAdd(confidence, F(3))
    ELSE confidence

\* min(confidence, 1.0)
Clamp(confidence) == FloatMin(confidence, F(10))

\* Variant of _calculate_confidence that adds the rule bonus only when the
\* rule changed the SKU.
CalculateRuleChangedOnly(original_sku, mapped_sku, existing_product, marketplace) ==
    Clamp(Bonus(Bonus(MatchBonus(Bonus(F(5), validate_sku(original_sku, marketplace), F(2)),
                                 existing_product, mapped_sku),
                      marketplace \in marketplace_rules /\ mapped_sku # _clean_sku(original_sku),
                      F(1)),
                Len(original_sku) >= 8 /\ HasHyphen(original_sku), F(1)))

\* _calculate_confidence, for original_sku a str (len(None) raises)
_calculate_confidence(original_sku, mapped_sku, existing_product, marketplace) ==
    Clamp(Bonus(Bonus(MatchBonus(Bonus(F(5), validate_sku(original_sku, marketplace), F(2)),
                                 existing_product, mapped_sku),
                      marketplace \in marketplace_rules, F(1)),
                Len(original_sku) >= 8 /\ HasHyphen(original_sku), F(1)))

\* Variant of _determine_mapping_method with 0.7 as the automatic threshold.
MethodLowThreshold(confidence, existing_product) ==
    IF existing_product # NoProduct /\ confidence >= F(7) THEN "automatic"
    ELSE IF confidence >= F(7) THEN "ai_suggested"
    ELSE "manual"

\* Variant of _determine_mapping_method in which 0.7 itself is not enough
\* for ai_suggested.
MethodStrictSuggestion(confidence, existing_product) ==
    IF existing_product # NoProduct /\ confidence >= F(9) THEN "automatic"
    ELSE IF confidence > F(7) THEN "ai_suggested"
    ELSE "manual"

_determine_mapping_method(confidence, existing_product) ==
    IF existing_product # NoProduct /\ confidence >= F(9) THEN "automatic"
    ELSE IF confidence >= F(7) THEN "ai_suggested"
    ELSE "manual"

\* _generate_mapping_notes: the pieces of the "; "-joined string
_generate_mapping_notes(confidence, existing_product) ==
    <<IF confidence >= F(9) THEN "High confidence automatic mapping"
      ELSE IF confidence >= F(7) THEN "AI suggested mapping - review recommended"
      ELSE "Low confidence mapping - manual review required",
      "; ">>
    \o (IF existing_product # NoProduct
        THEN <<"Matched to existing product: ", existing_product.name>>
        ELSE <<"No existing product match found">>)

-----------------------------------------------------------------------------
(* map_sku and batch_map_skus.                                             *)

NoResult == [original_sku |-> NoneStr, mapped_sku |-> NoneStr, msku |-> NoneStr,
             marketplace |-> NoneStr, confidence |-> 0, mapping_method |-> "None",
             product_id |-> "None", notes |-> <<>>]

NoLookup == [product |-> NoProduct, by |-> "none", log |-> <<>>]

DatabaseError == "(sqlite3.OperationalError) unable to open database file"

NoneLenError == "object of type 'NoneType' has no len()"

\* Variant of the result dictionary that reports the product id only for
\* products that have an msku.
MappingResultIdWithMsku(original_sku, marketplace, mapped_sku, existing_product, confidence) ==
    [original_sku   |-> original_sku,
     mapped_sku     |-> mapped_sku,
     msku           |-> _generate_msku(mapped_sku, marketplace, existing_product),
     marketplace    |-> marketplace,
     confidence     |-> confidence,
     mapping_method |-> _determine_mapping_method(confidence, existing_product),
     product_id     |-> IF Truthy(existing_product.msku) THEN existing_product.id ELSE "None",
     notes          |-> _generate_mapping_notes(confidence, existing_product)]

\* lines 62-82 of map_sku: the dictionary built from the lookup and the score
MappingResult(original_sku, marketplace, mapped_sku, existing_product, confidence) ==
    [original_sku   |-> original_sku,
     mapped_sku     |-> mapped_sku,
     msku           |-> _generate_msku(mapped_sku, marketplace, existing_product),
     marketplace    |-> marketplace,
     confidence     |-> confidence,
     mapping_method |-> _determine_mapping_method(confidence, existing_product),
     product_id     |-> existing_product.id,
     notes          |-> _generate_mapping_notes(confidence, existing_product)]

\* map_sku once the lookup has returned; len(None) raises in the scorer
MapFound(original_sku, marketplace, mapped_sku, lookup) ==
    IF original_sku = NoneStr
    THEN [raised |-> NoneLenError, result |-> NoResult, found |-> lookup, log |-> lookup.log]
    ELSE [raised |-> "none",
          result |-> MappingResult(original_sku, marketplace, mapped_sku, lookup.product,
                                   _calculate_confidence(original_sku, mapped_sku,
                                                         lookup.product, marketplace)),
          found |-> lookup, log |-> lookup.log]

\* map_sku from the lookup on; dbFails: the first query raises
MapLookup(original_sku, marketplace, dbFails, mapped_sku) ==
    IF dbFails
    THEN [raised |-> DatabaseError, result |-> NoResult, found |-> NoLookup, log |-> <<"sku">>]
    ELSE MapFound(original_sku, marketplace, mapped_sku,
                  _find_existing_product(mapped_sku, marketplace))

\* map_sku(original_sku, marketplace, db)
map_sku(original_sku, marketplace, dbFails) ==
    MapLookup(original_sku, marketplace, dbFails,
              _apply_marketplace_rules(_clean_sku(original_sku), marketplace))

HasKey(d, k) == k \in DOMAIN d

\* Variant of the except branch that leaves a score in the record.
FailureRecordScored(sku, message) ==
    [original_sku |-> sku, error |-> message, confidence |-> F(5), mapping_method |-> "manual"]

\* the dictionary appended by the except branch of the batch loop
FailureRecord(sku, message) ==
    [original_sku |-> sku, error |-> message, confidence |-> 0, mapping_method |-> "failed"]

KeyErrorSku == "'sku'"

NoGetAttribute == "'str' object has no attribute 'get'"

\* result.update(sku_data)
Merge(result, sku_data) == sku_data @@ result

\* the try block and the except branch, r the outcome of map_sku
Isolate(sku_data, r) ==
    IF r.raised # "none"
    THEN [raised |-> "none", record |-> FailureRecord(sku_data.sku, r.raised), log |-> r.log]
    ELSE [raised |-> "none", record |-> Merge(r.result, sku_data), log |-> r.log]

\* one pass of the loop body of batch_map_skus; raised is the exception
\* that leaves the except branch, "none" when a record was appended
BatchItem(item, marketplace, dbFails) ==
    IF item.kind # "dict"
    THEN [raised |-> NoGetAttribute, record |-> NoResult, log |-> <<>>]
    ELSE IF ~HasKey(item.d, "sku")
    THEN [raised |-> "none", record |-> FailureRecord(NoneStr, KeyErrorSku), log |-> <<>>]
    ELSE Isolate(item.d, map_sku(item.d.sku, marketplace, dbFails))

\* the loop of batch_map_skus after item n gave b, acc the outcome so far
RECURSIVE BatchLoop(_, _, _, _, _)
RECURSIVE BatchAfter(_, _, _, _, _, _)
BatchAfter(sku_list, marketplace, failAt, n, acc, b) ==
    IF b.raised # "none"
    THEN [raised |-> b.raised, results |-> acc.results, log |-> acc.log \o b.log]
    ELSE BatchLoop(sku_list, marketplace, failAt, n + 1,
                   [raised |-> "none", results |-> Append(acc.results, b.record),
                    log |-> acc.log \o b.log])

BatchLoop(sku_list, marketplace, failAt, n, acc) ==
    IF n > Len(sku_list) THEN acc
    ELSE BatchAfter(sku_list, marketplace, failAt, n, acc,
                    BatchItem(sku_list[n], marketplace, failAt = n))

batch_map_skus(sku_list, marketplace, failAt) ==
    BatchLoop(sku_list, marketplace, failAt, 1,
              [raised |-> "none", results |-> <<>>, log |-> <<>>])


-----------------------------------------------------------------------------
(* validate_mapping_batch.                                                 *)

\* mapping.get(key) of a str-valued key: None when the key is missing
GetStr(mapping, key) == IF HasKey(mapping, key) THEN mapping[key] ELSE NoneStr

\* mapping.get('confidence', 0)
GetConfidence(mapping) == IF HasKey(mapping, "confidence") THEN mapping.confidence ELSE 0

\* f"Low confidence mapping for SKU: {mapping['original_sku']}"
LowConfidenceWarning(mapping) == <<"Low confidence mapping for SKU: ", mapping.original_sku>>

NoReport == [valid |-> <<>>, invalid |-> <<>>, warnings |-> <<>>]

\* Variant of the loop body that also warns about mappings of invalid format.
ValidateStepWarnsInvalid(acc, mapping, ok) ==
    [valid    |-> IF ok THEN Append(acc.valid, mapping) ELSE acc.valid,
     invalid  |-> IF ok THEN acc.invalid ELSE Append(acc.invalid, mapping),
     warnings |-> IF GetConfidence(mapping) < F(6)
                  THEN Append(acc.warnings, <<"Low confidence mapping for SKU: ",
                                              GetStr(mapping, "original_sku")>>)
                  ELSE acc.warnings]

\* Variant of the loop body that rejects a valid mapping of low confidence.
ValidateStepRejectsLow(acc, mapping, ok) ==
    IF ok /\ GetConfidence(mapping) >= F(6)
    THEN [valid |-> Append(acc.valid, mapping), invalid |-> acc.invalid,
          warnings |-> acc.warnings]
    ELSE [valid |-> acc.valid, invalid |-> Append(acc.invalid, mapping),
          warnings |-> IF ok THEN Append(acc.warnings, LowConfidenceWarning(mapping))
                       ELSE acc.warnings]

\* lines 293-299, ok the verdict of validate_sku on the mapping
ValidateStep(acc, mapping, ok) ==
    IF ok
    THEN [valid    |-> Append(acc.valid, mapping),
          invalid  |-> acc.invalid,
          warnings |-> IF GetConfidence(mapping) < F(6)
                       THEN Append(acc.warnings, LowConfidenceWarning(mapping))
                       ELSE acc.warnings]
    ELSE [valid    |-> acc.valid,
          invalid  |-> Append(acc.invalid, mapping),
          warnings |-> acc.warnings]

\* the for loop of validate_mapping_batch from mapping n on
RECURSIVE ValidateLoop(_, _, _)
ValidateLoop(mappings, n, acc) ==
    IF n > Len(mappings) THEN acc
    ELSE ValidateLoop(mappings, n + 1,
                      ValidateStep(acc, mappings[n],
                                   validate_sku(GetStr(mappings[n], "original_sku"),
                                                GetStr(mappings[n], "marketplace"))))

RECURSIVE Gcd(_, _)
Gcd(a, b) == IF b = 0 THEN a ELSE Gcd(b, a % b)

\* n / d in binary64 for list lengths n <= d, d > 0: the double nearest to
\* the fraction, named by the fraction in lowest terms (two such
\* fractions that differ are further apart than the spacing of doubles)
FloatDiv(n, d) == [num |-> n \div Gcd(n, d), den |-> d \div Gcd(n, d)]

\* the int 0, which compares equal to 0.0
Zero == [num |-> 0, den |-> 1]

\* Variant of the rate that counts the invalid mappings.
SuccessRateOfInvalid(nvalid, total) ==
    IF total # 0 THEN FloatDiv(total - nvalid, total) ELSE Zero

\* len(valid_mappings) / len(mappings) if mappings else 0
SuccessRate(nvalid, total) == IF total # 0 THEN FloatDiv(nvalid, total) ELSE Zero

\* lines 301-307
Report(mappings, acc) ==
    [valid           |-> acc.valid,
     invalid         |-> acc.invalid,
     warnings        |-> acc.warnings,
     total_processed |-> Len(mappings),
     success_rate    |-> SuccessRate(Len(acc.valid), Len(mappings))]

validate_mapping_batch(mappings) == Report(mappings, ValidateLoop(mappings, 1, NoReport))


-----------------------------------------------------------------------------
(* The inputs of the model.                                                *)

StringsUpTo(alphabet, n) == UNION { [1..k -> alphabet] : k \in 0..n }

\* lower case, digit, hyphen, underscore, blank, both quotes, and a letter
\* whose upper case is two code points
CleanAlphabet == {"a", "1", "-", "_", " ", "\"", "'", "U+01F0"}

ShortAlphabet == {"A", "1", "-"}

SkuAsin == <<"B","0","0","1","1","2","2","3","3","4">>

SkuAmzAsin == <<"A","M","Z","-","B","0","0","1","1","2","2","3","3","4">>

SkuStd7 == <<"A","B","-","1","2","3","4">>

SkuStd8 == <<"A","B","-","1","2","3","4","5">>

SkuStd8Lower == <<" ","a","b","-","1","2","3","4","5"," ">>

SkuNear == <<"A","B","-","1","2","3","4","6">>

SkuEbay == <<"1","2","3","4","5","6","7","8","9","0","1","2">>

SkuWalmart == <<"A","B","C","D","1","2","3","4">>

SkuNoMsku == <<"X","Y","-","9","9">>

SkuEmptyMsku == <<"Z","Z","-","1">>

\* one character of five away from SkuNoMsku: similarity 80
SkuEighty == <<"X","Y","-","9","8">>

\* three characters of fourteen away from SkuAmzAsin: similarity 79
SkuSeventyNine == <<"A","M","Z","-","B","0","0","1","1","2","2","9","9","9">>

SkuShopify == <<"A","B","C","D","-","1","2","3","4">>

SkuQuoted == <<"\"","a","b"," ","1","2","\"">>

SkuCaron == <<"U+01F0">>

SkuBlank == <<" ">>

SkuPool ==
    {<<>>, SkuBlank, NoneStr, SkuAsin, SkuAmzAsin, SkuStd7, SkuStd8, SkuStd8Lower,
     SkuNear, SkuEbay, SkuWalmart, SkuNoMsku, SkuEmptyMsku, SkuEighty, SkuShopify,
     SkuQuoted, SkuCaron}
    \cup StringsUpTo(ShortAlphabet, MaxLen)

Marketplaces == {Amazon, Ebay, Shopify, Walmart, Standard, Etsy}

\* a string of n characters: the head, then the characters of `body` in turn
Shaped(head, body, n) == head \o [i \in 1..(n - Len(head)) |-> body[((i - 1) % Len(body)) + 1]]

\* cleaned SKUs at and next to the shapes the four rules test
TransformPool ==
    { _clean_sku(s) : s \in StringsUpTo(CleanAlphabet, MaxLen - 1) }
    \cup { Shaped(<<"B">>, DigitChars, n) : n \in 9..11 }
    \cup { Shaped(<<"A">>, DigitChars, 10), Shaped(<<"B">>, <<"-","_">>, 10) }
    \cup { Shaped(<<>>, DigitChars, n) : n \in 11..13 }
    \cup { Shaped(<<"1","A">>, DigitChars, 12), Shaped(<<"1","-">>, DigitChars, 12) }
    \cup { Shaped(<<"A","B">>, DigitChars, n) : n \in {7, 8, 15, 16} }
    \cup { Shaped(<<"A","_">>, DigitChars, 8), SkuStd8, SkuShopify }

BatchMarketplaces == {Amazon, Etsy}

Dict(d) == [kind |-> "dict", d |-> d]

\* the sku_list entries: plain items, items with extra keys, an item with
\* an empty SKU, a null SKU, no 'sku' key, and an entry that is a str
ItemPool ==
    { Dict([sku |-> SkuStd8]),
      Dict([sku |-> SkuAsin, warehouse |-> "W1"]),
      Dict([sku |-> <<>>]),
      Dict([sku |-> NoneStr]),
      Dict([warehouse |-> "W1"]),
      Dict([sku |-> SkuStd8, confidence |-> F(50), mapping_method |-> "bogus"]),
      Dict([sku |-> SkuNear, original_sku |-> SkuStd8, msku |-> SkuStd7]),
      [kind |-> "str", d |-> [sku |-> NoneStr]] }

MaxMappings == 2

\* the records handed to validate_mapping_batch: results of map_sku on
\* the catalog at hand and failure records of batch_map_skus
MappingPool ==
    { map_sku(sku, m, FALSE).result : sku \in {SkuStd8, SkuAsin, <<>>}, m \in {Amazon, Etsy} }
    \cup { FailureRecord(SkuStd8, DatabaseError), FailureRecord(NoneStr, KeyErrorSku) }

\* ten mappings: v of valid format, i of invalid format, l of valid
\* format with confidence 0.0
TenOf(v, i, l) == <<v, i, l, v, v, i, l, v, i, v>>

ScenarioTen ==
    TenOf(map_sku(SkuAsin, Amazon, FALSE).result, map_sku(SkuStd8, Amazon, FALSE).result,
          FailureRecord(SkuStd8, DatabaseError))

MappingLists == UNION { [1..n -> MappingPool] : n \in 0..MaxMappings } \cup {ScenarioTen}

NumCallers == 2

\* the callers that run map_sku at the same time on the shared service
Callers == 1..NumCallers

ConcurrentSkus == {SkuNear, SkuAsin}

ConcurrentMarketplaces == {Amazon, Etsy}

Product(id, sku, msku, name) == [id |-> id, sku |-> sku, msku |-> msku, name |-> name]

Listing(sku, platform, product_id) ==
    [marketplace_sku |-> sku, platform |-> platform, product_id |-> product_id]

\* Catalogs: products.sku is unique and not null (the empty string is a
\* value the column and the ProductCreate schema accept), products.msku is
\* nullable, every listing refers to a product.
Catalogs ==
    { [products |-> <<>>, listings |-> <<>>],
      [products |-> << Product("p1", SkuStd8, <<"M","S","K","U","-","0","0","0","1">>, "Widget"),
                       Product("p2", SkuNoMsku, NoneStr, "Gadget"),
                       Product("p3", <<"Q","7">>, SkuStd7, "Gizmo") >>,
       listings |-> << Listing(SkuAmzAsin, Amazon, "p2"),
                       Listing(<<"E","B","Y","-","5","6","7","8","9","0","1","2">>, Ebay, "p1") >>],
      [products |-> << Product("p4", SkuEmptyMsku, <<>>, "Bolt"),
                       Product("p5", <<"K">>, <<"W","M","T","-","A","B","C","D","1","2","3","5">>, "Nut"),
                       Product("p9", SkuSeventyNine, NoneStr, "Cog") >>,
       listings |-> <<>>],
      [products |-> << Product("p6", <<>>, NoneStr, "Blank"),
                       Product("p7", SkuNoMsku, SkuEmptyMsku, "Washer"),
                       Product("p8", SkuEmptyMsku, NoneStr, "Rivet") >>,
       listings |-> << Listing(SkuStd7, Etsy, "p6") >>] }

-----------------------------------------------------------------------------
(* The service as a state machine: a caller picks a method and its         *)
(* arguments, the method runs to its end, the caller takes the outcome.    *)

EmptyReport == [valid |-> <<>>, invalid |-> <<>>, warnings |-> <<>>,
                total_processed |-> 0, success_rate |-> Zero]

NoOutcome == [raised |-> "none", result |-> NoResult, found |-> NoLookup, log |-> <<>>]

\* the local variables of a call of map_sku that has not begun
NoLocals == [original_sku |-> NoneStr, marketplace |-> NoneStr, cleaned_sku |-> NoneStr,
             mapped_sku |-> NoneStr, existing_product |-> NoLookup, outcome |-> NoOutcome]

\* the desktop SKUMapper after __init__ (src/sku_mapper.py lines 19-23)
DesktopInit ==
    /\ mapping_data = <<>>
    /\ reverse_mapping = <<>>
    /\ combo_products = <<>>
    /\ load_ret = TRUE
    /\ lookup_ret = NoneStr
    /\ n_loads = 0

desktop == <<mapping_data, reverse_mapping, combo_products, load_ret, lookup_ret, n_loads>>

NoResponse == [endpoint |-> "none", supplied |-> "None", status |-> 0, session_id |-> "None"]

\* the web API after start-up (src/warehouse_web/backend/app.py line 52)
WebInit ==
    /\ sessions = <<>>
    /\ uuid_count = 0
    /\ sleeping = {}
    /\ web_resp = NoResponse
    /\ processed_ok = {}
    /\ stored_mapping = {}
    /\ stored_sales = {}

web == <<sessions, uuid_count, sleeping, web_resp, processed_ok, stored_mapping, stored_sales>>

NoHttp == [endpoint |-> "none", id |-> 0, name |-> "", status |-> 0]

NoProcessResult == [job_id |-> 0, records_processed |-> 0, records_total |-> 0,
                    errors |-> <<>>, success_rate |-> Zero]

\* the backend after start-up, with one row in sku_mappings
BackendInit ==
    /\ jobs = <<>>
    /\ calls = <<>>
    /\ sales_records = <<>>
    /\ sku_mappings = << [id |-> "m1", validated |-> FALSE, confidence |-> F(8)] >>
    /\ http = NoHttp
    /\ pf_result = NoProcessResult

backend == <<jobs, calls, sales_records, sku_mappings, http, pf_result>>

\* the state of the programs other than the backend's SKU mapper service
elsewhere == <<desktop, web, backend>>

Init ==
    /\ DesktopInit
    /\ WebInit
    /\ BackendInit
    /\ \E c \in Catalogs : products = c.products /\ listings = c.listings
    /\ patterns = PatternNames
    /\ marketplace_rules = RuleNames
    /\ pc = "idle"
    /\ op = "none"
    /\ arg_sku = NoneStr
    /\ arg_marketplace = NoneStr
    /\ arg_list = <<>>
    /\ db_fail_at = 0
    /\ ret = NoResult
    /\ results = <<>>
    /\ cleaned = <<>>
    /\ transformed = <<>>
    /\ raised = "none"
    /\ found = NoLookup
    /\ db_log = <<>>
    /\ arg_mappings = <<>>
    /\ report = EmptyReport
    /\ cpc = [c \in Callers |-> "idle"]
    /\ loc = [c \in Callers |-> NoLocals]

\* what no method of the service assigns
service == <<products, listings, patterns, marketplace_rules>>

CallCleanSku(sku) ==
    /\ pc = "idle"
    /\ pc' = "done"
    /\ op' = "_clean_sku"
    /\ arg_sku' = sku
    /\ cleaned' = _clean_sku(sku)
    /\ UNCHANGED <<elsewhere, service, arg_marketplace, arg_list, db_fail_at, ret,
                   results, transformed, raised, found, db_log, arg_mappings, report,
                   cpc, loc>>

\* _apply_marketplace_rules is called with the cleaned SKU (line 57)
CallApplyMarketplaceRules(sku, marketplace) ==
    /\ pc = "idle"
    /\ pc' = "done"
    /\ op' = "_apply_marketplace_rules"
    /\ arg_sku' = sku
    /\ arg_marketplace' = marketplace
    /\ transformed' = _apply_marketplace_rules(sku, marketplace)
    /\ UNCHANGED <<elsewhere, service, arg_list, db_fail_at, ret, results, cleaned, raised, found,
                   db_log, arg_mappings, report, cpc, loc>>

MapSkuEnds(r) ==
    /\ ret' = r.result
    /\ raised' = r.raised
    /\ found' = r.found
    /\ db_log' = r.log

CallMapSku(sku, marketplace, failAt) ==
    /\ pc = "idle"
    /\ MapSkuEnds(map_sku(sku, marketplace, failAt = 1))
    /\ pc' = "done"
    /\ op' = "map_sku"
    /\ arg_sku' = sku
    /\ arg_marketplace' = marketplace
    /\ db_fail_at' = failAt
    /\ UNCHANGED <<elsewhere, service, arg_list, results, cleaned, transformed, arg_mappings, report,
                   cpc, loc>>

BatchEnds(r) ==
    /\ results' = IF r.raised = "none" THEN r.results ELSE <<>>
    /\ raised' = r.raised
    /\ db_log' = r.log

CallBatchMapSkus(sku_list, marketplace, failAt) ==
    /\ pc = "idle"
    /\ BatchEnds(batch_map_skus(sku_list, marketplace, failAt))
    /\ pc' = "done"
    /\ op' = "batch_map_skus"
    /\ arg_list' = sku_list
    /\ arg_marketplace' = marketplace
    /\ db_fail_at' = failAt
    /\ UNCHANGED <<elsewhere, service, arg_sku, ret, cleaned, transformed, found, arg_mappings, report,
                   cpc, loc>>

CallValidateMappingBatch(mappings) ==
    /\ pc = "idle"
    /\ report' = validate_mapping_batch(mappings)
    /\ pc' = "done"
    /\ op' = "validate_mapping_batch"
    /\ arg_mappings' = mappings
    /\ UNCHANGED <<elsewhere, service, arg_sku, arg_marketplace, arg_list, db_fail_at, ret, results,
                   cleaned, transformed, raised, found, db_log, cpc, loc>>

\* the caller takes the outcome; the service keeps nothing of the call
Return ==
    /\ pc = "done"
    /\ pc' = "idle"
    /\ op' = "none"
    /\ arg_sku' = NoneStr
    /\ arg_marketplace' = NoneStr
    /\ arg_list' = <<>>
    /\ db_fail_at' = 0
    /\ ret' = NoResult
    /\ results' = <<>>
    /\ cleaned' = <<>>
    /\ transformed' = <<>>
    /\ raised' = "none"
    /\ found' = NoLookup
    /\ db_log' = <<>>
    /\ arg_mappings' = <<>>
    /\ report' = EmptyReport
    /\ UNCHANGED <<elsewhere, service, cpc, loc>>

Next ==
    \/ \E sku \in StringsUpTo(CleanAlphabet, MaxLen) : CallCleanSku(sku)
    \/ pc = "idle" /\ \E sku \in TransformPool, m \in Marketplaces :
                        CallApplyMarketplaceRules(sku, m)
    \/ \E sku \in SkuPool, m \in Marketplaces, failAt \in 0..1 : CallMapSku(sku, m, failAt)
    \/ \E n \in 0..MaxBatch : \E sku_list \in [1..n -> ItemPool] :
           \E m \in BatchMarketplaces, failAt \in 0..n : CallBatchMapSkus(sku_list, m, failAt)
    \/ pc = "idle" /\ \E mappings \in MappingLists : CallValidateMappingBatch(mappings)
    \/ Return

Spec == Init /\ [][Next]_vars

-----------------------------------------------------------------------------
(* Concurrent calls of map_sku on the one service object: every caller has *)
(* its own local variables and runs the body of map_sku line by line; the  *)
(* steps of different callers interleave in any order.                     *)

\* what the sequential callers above use
sequential == <<pc, op, arg_sku, arg_marketplace, arg_list, db_fail_at, ret, results,
                cleaned, transformed, raised, found, db_log, arg_mappings, report>>

\* caller c moves to line `to` with its local variables set to `locals`
Goto(c, to, locals) ==
    /\ cpc' = [cpc EXCEPT ![c] = to]
    /\ loc' = [loc EXCEPT ![c] = locals]
    /\ UNCHANGED <<elsewhere, service, sequential>>

\* line 48: the call begins
MapEnter(c, sku, marketplace) ==
    /\ cpc[c] = "idle"
    /\ Goto(c, "l54", [NoLocals EXCEPT !.original_sku = sku, !.marketplace = marketplace])

\* line 54
MapClean(c) ==
    /\ cpc[c] = "l54"
    /\ Goto(c, "l57", [loc[c] EXCEPT !.cleaned_sku = _clean_sku(loc[c].original_sku)])

\* Variant of line 57 in which the cleaned SKU is kept on the service
\* object, where the first caller's value is the one that is read.
MapTransformShared(c) ==
    /\ cpc[c] = "l57"
    /\ Goto(c, "l60", [loc[c] EXCEPT !.mapped_sku =
                           _apply_marketplace_rules(loc[1].cleaned_sku, loc[c].marketplace)])

\* line 57
MapTransform(c) ==
    /\ cpc[c] = "l57"
    /\ Goto(c, "l60", [loc[c] EXCEPT !.mapped_sku =
                           _apply_marketplace_rules(loc[c].cleaned_sku, loc[c].marketplace)])

\* line 60
MapFind(c) ==
    /\ cpc[c] = "l60"
    /\ Goto(c, "l63", [loc[c] EXCEPT !.existing_product =
                           _find_existing_product(loc[c].mapped_sku, loc[c].marketplace)])

\* lines 63-85
MapBuild(c) ==
    /\ cpc[c] = "l63"
    /\ Goto(c, "done", [loc[c] EXCEPT !.outcome =
                            MapFound(loc[c].original_sku, loc[c].marketplace,
                                     loc[c].mapped_sku, loc[c].existing_product)])

\* the caller takes the result
MapLeave(c) ==
    /\ cpc[c] = "done"
    /\ Goto(c, "idle", NoLocals)

NextConcurrent ==
    \/ \E c \in Callers, sku \in ConcurrentSkus, m \in ConcurrentMarketplaces : MapEnter(c, sku, m)
    \/ \E c \in Callers : MapClean(c)
    \/ \E c \in Callers : MapTransform(c)
    \/ \E c \in Callers : MapFind(c)
    \/ \E c \in Callers : MapBuild(c)
    \/ \E c \in Callers : MapLeave(c)

Concurrent == Init /\ [][NextConcurrent]_vars

-----------------------------------------------------------------------------
(* The desktop application's SKUMapper (src/sku_mapper.py): a mapping file *)
(* is a table with a header and rows; a cell is the list of the tokens of  *)
(* its text, "," for a comma and a name for each run of other characters,  *)
(* <<>> for an empty cell or NaN.                                          *)

MaxRows == 2

MaxLoads == 2

\* dict[key] = value
DictSet(d, key, value) ==
    [k \in DOMAIN d \cup {key} |-> IF k = key THEN value ELSE d[k]]

\* dict.get(key, [])
ListAt(d, key) == IF key \in DOMAIN d THEN d[key] ELSE <<>>

\* [s.strip() for s in sku.split(',')]: a name between commas, "" where
\* there is none
RECURSIVE SplitCell(_, _)
SplitCell(cell, cur) ==
    IF cell = <<>> THEN <<cur>>
    ELSE IF Head(cell) = "," THEN <<cur>> \o SplitCell(Tail(cell), "")
    ELSE SplitCell(Tail(cell), Head(cell))

HasComma(cell) == \E i \in 1..Len(cell) : cell[i] = ","

\* lines 58-65: every SKU of a combo cell is mapped and listed as a combo
RECURSIVE ComboLoop(_, _, _)
ComboLoop(t, skus, msku) ==
    IF skus = <<>> THEN t
    ELSE ComboLoop([t EXCEPT
                       !.mapping_data = DictSet(t.mapping_data, Head(skus), msku),
                       !.combo_products = DictSet(t.combo_products, msku,
                                              Append(ListAt(t.combo_products, msku), Head(skus)))],
                   Tail(skus), msku)

\* lines 57-67: the forward table
Forward(t, row) ==
    IF HasComma(row.sku) THEN ComboLoop(t, SplitCell(row.sku, ""), row.msku)
    ELSE [t EXCEPT !.mapping_data = DictSet(t.mapping_data, row.sku[1], row.msku)]

\* lines 69-75: the reverse table
Reverse(t, row) ==
    [t EXCEPT !.reverse_mapping =
        DictSet(t.reverse_mapping, row.msku,
                ListAt(t.reverse_mapping, row.msku)
                \o (IF HasComma(row.sku) THEN SplitCell(row.sku, "") ELSE <<row.sku[1]>>))]

\* lines 50-75: one row of the file; a row with an empty SKU or MSKU cell
\* is skipped
LoadRow(t, row) ==
    IF row.sku = <<>> \/ row.msku = "" THEN t ELSE Reverse(Forward(t, row), row)

RECURSIVE LoadRows(_, _)
LoadRows(t, rows) == IF rows = <<>> THEN t ELSE LoadRows(LoadRow(t, Head(rows)), Tail(rows))

\* load_mapping_data(file_path): a file that cannot be read or lacks the
\* SKU or MSKU column changes nothing and returns False
load_mapping_data(t, file) ==
    IF ~file.readable \/ ~file.has_columns THEN [tables |-> t, ok |-> FALSE]
    ELSE [tables |-> LoadRows(t, file.rows), ok |-> TRUE]

\* map_sku_to_msku(sku): no marketplace format is registered, so only the
\* direct lookup can answer
map_sku_to_msku(sku) ==
    IF sku = "" THEN NoneStr
    ELSE IF sku \in DOMAIN mapping_data THEN mapping_data[sku]
    ELSE NoneStr

MappingRow(sku, msku) == [sku |-> sku, msku |-> msku]

\* rows of mapping files: plain rows, the same SKU under two MSKUs, a
\* combo row, a row without SKU and a row without MSKU
MappingRowPool ==
    { MappingRow(<<"A">>, "M1"), MappingRow(<<"A">>, "M2"), MappingRow(<<"B">>, "M1"),
      MappingRow(<<"A", ",", "B">>, "M2"), MappingRow(<<>>, "M1"), MappingRow(<<"B">>, "") }

MappingFiles ==
    { [readable |-> TRUE, has_columns |-> TRUE, rows |-> rows] :
          rows \in UNION { [1..n -> MappingRowPool] : n \in 0..MaxRows } }
    \cup { [readable |-> TRUE, has_columns |-> FALSE, rows |-> <<MappingRow(<<"A">>, "M1")>>],
           [readable |-> FALSE, has_columns |-> FALSE, rows |-> <<>>] }

mapper == <<service, sequential, cpc, loc>>

LoadMappingData(file) ==
    /\ n_loads < MaxLoads
    /\ LET r == load_mapping_data([mapping_data |-> mapping_data,
                                   reverse_mapping |-> reverse_mapping,
                                   combo_products |-> combo_products], file)
       IN  /\ mapping_data' = r.tables.mapping_data
           /\ reverse_mapping' = r.tables.reverse_mapping
           /\ combo_products' = r.tables.combo_products
           /\ load_ret' = r.ok
    /\ n_loads' = n_loads + 1
    /\ UNCHANGED <<mapper, web, backend, lookup_ret>>

MapSkuToMsku(sku) ==
    /\ lookup_ret' = map_sku_to_msku(sku)
    /\ UNCHANGED <<mapper, web, backend, mapping_data, reverse_mapping, combo_products, load_ret,
                   n_loads>>

NextDesktop ==
    \/ \E file \in MappingFiles : LoadMappingData(file)
    \/ \E sku \in {"A", "B", "C", ""} : MapSkuToMsku(sku)

\* the service is not used: its catalog is empty
EmptyCatalog == Init /\ products = <<>>

Desktop == EmptyCatalog /\ [][NextDesktop]_vars

-----------------------------------------------------------------------------
(* The web upload API (src/warehouse_web/backend/app.py).  A session is    *)
(* the set of the keys of its dictionary.  Every request is served by its  *)
(* own thread; process_data sleeps between its checks and its writes.      *)

MaxUuids == 2

\* uuid.uuid4().hex: the n-th value, different from every earlier one and
\* from every string a client sends
UuidHex(n) == <<"u1", "u2", "u3", "u4", "u5", "u6", "u7", "u8">>[n]

\* the session_id of a request: "None" for none, a string of the client's
\* own, or the id of a session
SuppliedIds == {"None", "abc"} \cup DOMAIN sessions

\* the file part of an upload: none, one without a filename, a name with
\* an extension that is not allowed, and an allowed one
FileParts == {"nopart", "noname", "notes.txt", "data.csv"}

\* lines 26-27
allowed_file(filename) == filename = "data.csv"

\* lines 29-49: success of save_uploaded_file
save_uploaded_file(file) == allowed_file(file)

Respond(endpoint, supplied, status, session_id) ==
    web_resp' = [endpoint |-> endpoint, supplied |-> supplied, status |-> status,
                 session_id |-> session_id]

\* sessions[session_id][key] = ..., the session created if it is not there
StoreKeys(d, session_id, keys) ==
    DictSet(d, session_id, (IF session_id \in DOMAIN d THEN d[session_id] ELSE {}) \cup keys)

\* lines 65-96
upload_mapping(file, supplied) ==
    IF file \in {"nopart", "noname"}
    THEN /\ Respond("mapping", supplied, 400, "None")
         /\ UNCHANGED <<sessions, uuid_count, stored_mapping>>
    ELSE LET fresh == supplied = "None"
             session_id == IF fresh THEN UuidHex(uuid_count + 1) ELSE supplied
         IN  /\ fresh => uuid_count < MaxUuids
             /\ uuid_count' = IF fresh THEN uuid_count + 1 ELSE uuid_count
             /\ IF ~save_uploaded_file(file)
                THEN /\ Respond("mapping", supplied, 400, "None")
                     /\ UNCHANGED <<sessions, stored_mapping>>
                ELSE /\ sessions' = StoreKeys(sessions, session_id,
                                              {"mapping_file", "mapping_filename"})
                     /\ stored_mapping' = stored_mapping \cup {session_id}
                     /\ Respond("mapping", supplied, 200, session_id)

\* lines 109-112: the session the sales file goes to
SalesSession(supplied) ==
    IF supplied \in {"None", ""} \/ supplied \notin DOMAIN sessions
    THEN [fresh |-> TRUE, id |-> UuidHex(uuid_count + 1)]
    ELSE [fresh |-> FALSE, id |-> supplied]

\* lines 98-129
upload_sales(file, supplied) ==
    IF file \in {"nopart", "noname"}
    THEN /\ Respond("sales", supplied, 400, "None")
         /\ UNCHANGED <<sessions, uuid_count, stored_sales>>
    ELSE LET target == SalesSession(supplied)
             created == StoreKeys(sessions, target.id, {})
         IN  /\ target.fresh => uuid_count < MaxUuids
             /\ uuid_count' = IF target.fresh THEN uuid_count + 1 ELSE uuid_count
             /\ IF ~save_uploaded_file(file)
                THEN /\ sessions' = created
                     /\ Respond("sales", supplied, 400, "None")
                     /\ UNCHANGED stored_sales
                ELSE /\ sessions' = StoreKeys(created, target.id,
                                              {"sales_file", "sales_filename"})
                     /\ stored_sales' = stored_sales \cup {target.id}
                     /\ Respond("sales", supplied, 200, target.id)

\* lines 137-138, 182-183, 224-225
InvalidSession(session_id) ==
    session_id \in {"None", ""} \/ session_id \notin DOMAIN sessions

\* lines 131-148: the checks of process_data; 0 when it goes on
process_checks(session_id) ==
    IF InvalidSession(session_id) THEN 400
    ELSE IF "mapping_file" \notin sessions[session_id] \/ "sales_file" \notin sessions[session_id]
    THEN 400
    ELSE 0

\* Variant of lines 187-189 that does not ask whether processing is complete.
ResultsOfAnySession(session_id) ==
    IF InvalidSession(session_id) THEN 400 ELSE 200

\* lines 177-216: the status get_results answers with
get_results(session_id) ==
    IF InvalidSession(session_id) THEN 400
    ELSE IF "processing_complete" \notin sessions[session_id] THEN 400
    ELSE 200

\* lines 218-272: the statuses export_data can answer with; writing the
\* file can fail
export_data(session_id) ==
    IF InvalidSession(session_id) THEN {400}
    ELSE IF "processing_complete" \notin sessions[session_id] THEN {400}
    ELSE {200, 500}

others == <<mapper, desktop, backend>>

UploadMapping(file, supplied) ==
    /\ upload_mapping(file, supplied)
    /\ UNCHANGED <<others, sleeping, processed_ok, stored_sales>>

UploadSales(file, supplied) ==
    /\ upload_sales(file, supplied)
    /\ UNCHANGED <<others, sleeping, processed_ok, stored_mapping>>

\* process_data up to time.sleep (lines 131-154)
ProcessBegin(supplied) ==
    /\ IF process_checks(supplied) = 0
       THEN /\ sleeping' = sleeping \cup {supplied}
            /\ UNCHANGED web_resp
       ELSE /\ Respond("process", supplied, process_checks(supplied), "None")
            /\ UNCHANGED sleeping
    /\ UNCHANGED <<others, sessions, uuid_count, processed_ok, stored_mapping, stored_sales>>

\* process_data after time.sleep (lines 156-170)
ProcessEnd(session_id) ==
    /\ session_id \in sleeping
    /\ sleeping' = sleeping \ {session_id}
    /\ sessions' = StoreKeys(sessions, session_id,
                             {"result_file", "processing_complete", "processing_time"})
    /\ processed_ok' = processed_ok \cup {session_id}
    /\ Respond("process", session_id, 200, session_id)
    /\ UNCHANGED <<others, uuid_count, stored_mapping, stored_sales>>

GetResults(supplied) ==
    /\ Respond("results", supplied, get_results(supplied),
               IF get_results(supplied) = 200 THEN supplied ELSE "None")
    /\ UNCHANGED <<others, sessions, uuid_count, sleeping, processed_ok, stored_mapping,
                   stored_sales>>

ExportData(supplied) ==
    /\ \E status \in export_data(supplied) : Respond("export", supplied, status, "None")
    /\ UNCHANGED <<others, sessions, uuid_count, sleeping, processed_ok, stored_mapping,
                   stored_sales>>

NextWeb ==
    \/ \E file \in FileParts, sid \in SuppliedIds : UploadMapping(file, sid)
    \/ \E file \in FileParts, sid \in SuppliedIds : UploadSales(file, sid)
    \/ \E sid \in SuppliedIds : ProcessBegin(sid)
    \/ \E sid \in sleeping : ProcessEnd(sid)
    \/ \E sid \in SuppliedIds : GetResults(sid)
    \/ \E sid \in SuppliedIds : ExportData(sid)

Web == EmptyCatalog /\ [][NextWeb]_vars

-----------------------------------------------------------------------------
(* The FastAPI backend (src/backend/main.py) and DataProcessorService      *)
(* (src/backend/services/data_processor.py).  A cell of an uploaded table  *)
(* is the string of its characters, a number being written in digits, and  *)
(* NoneStr for an empty cell (NaN).  Every request has its own database    *)
(* session: a job row is what has been committed, calls[j].job is the job  *)
(* object of the request that processes job j.  A request runs alone up to *)
(* an await that suspends it: file.read() and asyncio.sleep().             *)

MaxJobs == 2

\* self.column_mappings (lines 25-70): for a marketplace, the column names
\* that may carry each standard field
column_mappings(marketplace) ==
    CASE marketplace = Amazon ->
           [order_id     |-> <<"order-id", "Order ID", "OrderId", "order_id", "Amazon Order ID">>,
            sku          |-> <<"sku", "SKU", "ASIN", "Product SKU", "Item SKU">>,
            product_name |-> <<"product-name", "Product Name", "Title", "Item Name">>,
            quantity     |-> <<"quantity", "Quantity", "Qty", "Quantity Purchased">>,
            unit_price   |-> <<"unit-price", "Unit Price", "Price", "Item Price">>,
            total_amount |-> <<"total", "Total", "Amount", "Order Total">>,
            fees         |-> <<"fees", "Fees", "Amazon Fee", "Referral Fee", "Commission">>,
            order_date   |-> <<"order-date", "Order Date", "Purchase Date", "Date">>,
            status       |-> <<"status", "Status", "Order Status", "Fulfillment Status">>]
      [] marketplace = Ebay ->
           [order_id     |-> <<"Sales Record Number", "Order ID", "Transaction ID">>,
            sku          |-> <<"Item ID", "Custom Label", "SKU", "Product ID">>,
            product_name |-> <<"Title", "Item Title", "Product Name">>,
            quantity     |-> <<"Quantity", "Qty", "Quantity Sold">>,
            unit_price   |-> <<"Price", "Sale Price", "Unit Price">>,
            total_amount |-> <<"Total", "Sale Amount", "Total Price">>,
            fees         |-> <<"eBay Fee", "Final Value Fee", "Fees">>,
            order_date   |-> <<"Sale Date", "Order Date", "Transaction Date">>,
            status       |-> <<"Order Status", "Status">>]
      [] marketplace = Shopify ->
           [order_id     |-> <<"Name", "Order", "Order Number", "Order ID">>,
            sku          |-> <<"SKU", "Variant SKU", "Product SKU">>,
            product_name |-> <<"Name", "Product Name", "Title">>,
            quantity     |-> <<"Quantity", "Qty">>,
            unit_price   |-> <<"Price", "Unit Price", "Product Price">>,
            total_amount |-> <<"Total", "Line Total", "Amount">>,
            fees         |-> <<"Fees", "Transaction Fee", "Payment Fee">>,
            order_date   |-> <<"Created at", "Order Date", "Date">>,
            status       |-> <<"Fulfillment Status", "Status", "Order Status">>]
      [] marketplace = Walmart ->
           [order_id     |-> <<"Purchase Order", "PO Number", "Order ID">>,
            sku          |-> <<"SKU", "Product SKU", "Item SKU", "WM SKU">>,
            product_name |-> <<"Product Name", "Item Name", "Title">>,
            quantity     |-> <<"Quantity", "Qty", "Units">>,
            unit_price   |-> <<"Unit Price", "Price", "Item Price">>,
            total_amount |-> <<"Total", "Amount", "Line Total">>,
            fees         |-> <<"Commission", "Walmart Fee", "Fees">>,
            order_date   |-> <<"Order Date", "Date", "Purchase Date">>,
            status       |-> <<"Status", "Order Status", "Fulfillment Status">>]
      [] OTHER -> <<>>

\* lines 196-201: the value of the first column that is there and not NaN
FirstPresent(row_data, possible_columns) ==
    LET hits == SelectSeq(possible_columns,
                          LAMBDA c : c \in DOMAIN row_data /\ row_data[c] # NoneStr)
    IN  IF hits = <<>> THEN NoneStr ELSE row_data[hits[1]]

\* _map_columns(row_data, marketplace), without the raw_data entry
_map_columns(row_data, marketplace) ==
    [field \in DOMAIN column_mappings(marketplace) |->
        FirstPresent(row_data, column_mappings(marketplace)[field])]

\* record.get(field)
RecordGet(record, field) == IF field \in DOMAIN record THEN record[field] ELSE NoneStr

RECURSIVE DigitsValue(_)
DigitsValue(s) ==
    IF s = <<>> THEN 0
    ELSE 10 * DigitsValue(SubSeq(s, 1, Len(s) - 1)) + (IndexOf(DigitChars, s[Len(s)]) - 1)

Unsigned(v) == IF v # <<>> /\ Head(v) = "-" THEN Tail(v) ELSE v

\* the cell holds a number
IsNumeric(v) == Unsigned(v) # <<>> /\ \A i \in 1..Len(Unsigned(v)) : IsDigit(Unsigned(v)[i])

\* float(v) of a cell that holds a number
NumberOf(v) == IF Head(v) = "-" THEN 0 - DigitsValue(Tail(v)) ELSE DigitsValue(v)

\* truth value of a cell: None and the number 0 are false
CellTruthy(v) == v # NoneStr /\ ~(IsNumeric(v) /\ NumberOf(v) = 0)

\* a cell pd.to_datetime rejects
BadDate == <<"?">>

RequiredFields == <<"order_id", "sku", "product_name", "quantity", "unit_price">>

\* lines 222-224
MissingFields(record) ==
    LET missing == SelectSeq(RequiredFields, LAMBDA f : ~CellTruthy(RecordGet(record, f)))
    IN  [n \in 1..Len(missing) |-> <<"Missing required field: ", missing[n]>>]

\* lines 227-233
QuantityErrors(q) ==
    IF ~CellTruthy(q) THEN <<>>
    ELSE IF ~IsNumeric(q) THEN << <<"Invalid quantity format">> >>
    ELSE IF NumberOf(q) <= 0 THEN << <<"Quantity must be greater than 0">> >>
    ELSE <<>>

\* lines 235-241
PriceErrors(p) ==
    IF ~CellTruthy(p) THEN <<>>
    ELSE IF ~IsNumeric(p) THEN << <<"Invalid unit price format">> >>
    ELSE IF NumberOf(p) < 0 THEN << <<"Unit price cannot be negative">> >>
    ELSE <<>>

\* lines 244-248
DateErrors(d) ==
    IF CellTruthy(d) /\ d = BadDate THEN << <<"Invalid order date format">> >> ELSE <<>>

\* _validate_record(record): the list of its errors
_validate_record(record) ==
    MissingFields(record) \o QuantityErrors(RecordGet(record, "quantity"))
    \o PriceErrors(RecordGet(record, "unit_price"))
    \o DateErrors(RecordGet(record, "order_date"))

FloatOfNone == "float() argument must be a string or a real number, not 'NoneType'"

FloatOfText == "could not convert string to float"

\* float(mapped_data.get(field, 0)) of lines 260-261: the key is there, so
\* the default is not used; what the call raises
FloatRaises(v) ==
    IF v = NoneStr THEN FloatOfNone ELSE IF ~IsNumeric(v) THEN FloatOfText ELSE "none"

\* _create_sales_record(mapped_data, sku_mapping, marketplace)
_create_sales_record(mapped_data, sku_mapping, marketplace) ==
    IF FloatRaises(mapped_data.total_amount) # "none"
    THEN [raised |-> FloatRaises(mapped_data.total_amount)]
    ELSE IF FloatRaises(mapped_data.fees) # "none"
    THEN [raised |-> FloatRaises(mapped_data.fees)]
    ELSE [raised |-> "none",
          order_id |-> mapped_data.order_id,
          marketplace |-> marketplace,
          sku |-> sku_mapping.original_sku,
          msku |-> sku_mapping.msku,
          product_id |-> sku_mapping.product_id]

RowError(index, msg) == [row |-> index + 1, msg |-> msg]

\* lines 118-122 after a record was made: in the model's files the progress
\* quotient is exact
RowDone(acc, index, total, sales_record) ==
    LET job == [acc.job EXCEPT !.records_processed = index + 1,
                               !.progress = (100 * (index + 1)) \div total]
    IN  [acc EXCEPT !.processed = Append(@, sales_record),
                    !.job = job,
                    !.committed = IF index % 10 = 0 THEN job ELSE @]

\* lines 109-116: mapping and record of a row that is valid
RowMapped(acc, index, total, mapped_data, marketplace, mapping) ==
    IF mapping.raised # "none"
    THEN [acc EXCEPT !.errors = Append(@, RowError(index, <<mapping.raised>>))]
    ELSE LET made == _create_sales_record(mapped_data, mapping.result, marketplace)
         IN  IF made.raised # "none"
             THEN [acc EXCEPT !.errors = Append(@, RowError(index, <<made.raised>>))]
             ELSE RowDone(acc, index, total, made)

\* lines 97-128: one turn of the loop over the rows
RowStep(acc, index, total, mapped_data, marketplace, dbFails) ==
    IF _validate_record(mapped_data) # <<>>
    THEN [acc EXCEPT !.errors =
             @ \o [n \in 1..Len(_validate_record(mapped_data)) |->
                      RowError(index, _validate_record(mapped_data)[n])]]
    ELSE RowMapped(acc, index, total, mapped_data, marketplace,
                   map_sku(mapped_data.sku, marketplace, dbFails))

\* df.dropna(how='all') (line 181): the rows that are not all NaN, with
\* the index labels they had
RECURSIVE DropEmpty(_, _)
DropEmpty(rows, index) ==
    IF rows = <<>> THEN <<>>
    ELSE (IF \A c \in DOMAIN Head(rows) : Head(rows)[c] = NoneStr THEN <<>>
          ELSE << [index |-> index, row_data |-> Head(rows)] >>)
         \o DropEmpty(Tail(rows), index + 1)

\* lines 96-128: the loop from row k of df on
RECURSIVE RowLoop(_, _, _, _, _)
RowLoop(acc, df, k, marketplace, fail_lookup) ==
    IF k > Len(df) THEN acc
    ELSE RowLoop(RowStep(acc, df[k].index, Len(df),
                         _map_columns(df[k].row_data, marketplace), marketplace,
                         fail_lookup = k),
                 df, k + 1, marketplace, fail_lookup)

\* lines 172-177 of main.py
NewJob(file_name, marketplace) ==
    [file_name |-> file_name, marketplace |-> marketplace, status |-> "processing",
     progress |-> 0, records_processed |-> 0, records_total |-> 0, errors |-> <<>>,
     warnings |-> <<>>]

\* lines 154-157: the except branch of process_file
FailJob(job, msg) == [job EXCEPT !.status = "failed", !.errors = <<msg>>]

\* lines 131-136
CompleteJob(job, errors) ==
    [job EXCEPT !.status = "completed", !.progress = 100, !.errors = errors,
                !.warnings = <<>>]

\* lines 138-145: the dictionary process_file returns
ProcessResult(job_id, processed, total, errors) ==
    [job_id |-> job_id, records_processed |-> Len(processed), records_total |-> total,
     errors |-> errors,
     success_rate |-> IF total > 0 THEN FloatDiv(Len(processed), total) ELSE Zero]

\* main.py lines 155-157, 188-190, 204-206: the except clause of an
\* endpoint catches whatever its try block raised, an HTTPException with
\* another status included, and answers 500
ExceptException(raised_status) == 500

\* line 167
SupportedName(file_name) == file_name \in {"sales.csv", "sales.xlsx", "sales.xls"}

Row(order_id, sku, title, quantity, price, total, fees) ==
    [c \in {"Order ID", "SKU", "Title", "Quantity", "Price", "Total", "Fees"} |->
        CASE c = "Order ID" -> order_id
          [] c = "SKU" -> sku
          [] c = "Title" -> title
          [] c = "Quantity" -> quantity
          [] c = "Price" -> price
          [] c = "Total" -> total
          [] c = "Fees" -> fees]

GoodRow == Row(<<"7">>, SkuStd8, <<"W">>, <<"2">>, <<"5">>, <<"1","0">>, <<"1">>)

AsinRow == Row(<<"8">>, SkuAsin, <<"G">>, <<"1">>, <<"5">>, <<"5">>, <<"0">>)

\* no SKU: one validation error
NoSkuRow == Row(<<"9">>, NoneStr, <<"W">>, <<"2">>, <<"5">>, <<"1","0">>, <<"1">>)

\* no order id and a quantity that is not a number: two validation errors
TwoErrorsRow == Row(NoneStr, SkuStd8, <<"W">>, <<"x">>, <<"5">>, <<"1","0">>, <<"1">>)

\* no total: the record cannot be made
NoTotalRow == Row(<<"7">>, SkuStd8, <<"W">>, <<"2">>, <<"5">>, NoneStr, <<"1">>)

EmptyRow == Row(NoneStr, NoneStr, NoneStr, NoneStr, NoneStr, NoneStr, NoneStr)

SalesFile(name, readable, rows) == [name |-> name, readable |-> readable, rows |-> rows]

\* the statement of the request during which the database raises: none,
\* the query for the job (line 77), the lookup of the first row's SKU, or
\* the commit of the records (line 307)
NoFault == "none"

Upload(file, marketplace, fault) == [file |-> file, marketplace |-> marketplace, fault |-> fault]

\* the uploads: a file whose rows all pass; one whose first row is not
\* valid; one with a row whose lookup raises, a row whose record cannot be
\* made, a row that is not valid and a row that passes; a file without
\* rows; a file whose records the database refuses to commit; a file that
\* cannot be parsed; a file name that is not supported; an upload during
\* which the query for the job raises
Uploads ==
    { Upload(SalesFile("sales.csv", TRUE, <<GoodRow, AsinRow>>), Amazon, NoFault),
      Upload(SalesFile("sales.csv", TRUE, <<NoSkuRow, GoodRow>>), Ebay, NoFault),
      Upload(SalesFile("sales.xlsx", TRUE, <<GoodRow, NoTotalRow, TwoErrorsRow, AsinRow>>),
             Amazon, "lookup"),
      Upload(SalesFile("sales.csv", TRUE, <<EmptyRow>>), Walmart, NoFault),
      Upload(SalesFile("sales.csv", TRUE, <<GoodRow, AsinRow>>), Amazon, "save"),
      Upload(SalesFile("sales.csv", TRUE, <<GoodRow>>), Amazon, "job"),
      Upload(SalesFile("sales.xls", FALSE, <<>>), Amazon, NoFault),
      Upload(SalesFile("notes.txt", TRUE, <<GoodRow>>), Amazon, NoFault) }

\* what pd.read_excel raises (line 176)
ParseError == "Excel file format cannot be determined, you must specify an engine manually."

Answer(endpoint, id, name, status) ==
    http' = [endpoint |-> endpoint, id |-> id, name |-> name, status |-> status]

rest == <<mapper, desktop, web>>

\* process_file has ended for job j: how, and with what
Ended(j, how, error, job) ==
    calls' = [calls EXCEPT ![j] = [@ EXCEPT !.pc = "done", !.how = how, !.error = error,
                                            !.job = job]]

\* lines 77 and 150-159: the query for the job raised, so `job` is not
\* among the locals of process_file and its except branch writes nothing
JobQueryRaised(u) ==
    [pc |-> "done", how |-> "raised", error |-> DatabaseError, upload |-> u,
     processed |-> <<>>, errors |-> <<>>, total |-> 0,
     job |-> NewJob(u.file.name, u.marketplace)]

\* upload_sales_data up to `await file.read()`: main.py lines 160-185 and
\* data_processor.py lines 72-85
UploadBegin(u) ==
    /\ IF ~SupportedName(u.file.name)
       THEN /\ Answer("upload", 0, u.file.name, ExceptException(400))
            /\ UNCHANGED <<jobs, calls>>
       ELSE /\ Len(jobs) < MaxJobs
            /\ jobs' = Append(jobs, NewJob(u.file.name, u.marketplace))
            /\ IF u.fault = "job"
               THEN /\ calls' = Append(calls, JobQueryRaised(u))
                    /\ Answer("upload", Len(jobs) + 1, u.file.name, ExceptException(500))
               ELSE /\ calls' = Append(calls, [pc |-> "reading", how |-> "running",
                                               error |-> "none", upload |-> u,
                                               processed |-> <<>>, errors |-> <<>>,
                                               total |-> 0,
                                               job |-> NewJob(u.file.name, u.marketplace)])
                    /\ UNCHANGED http
    /\ UNCHANGED <<rest, sales_records, sku_mappings, pf_result>>

\* process_file raises e: the except branch marks the job and commits,
\* the endpoint answers 500
ProcessRaises(j, job, e) ==
    /\ jobs' = [jobs EXCEPT ![j] = FailJob(job, e)]
    /\ Ended(j, "raised", e, FailJob(job, e))
    /\ Answer("upload", j, calls[j].upload.file.name, ExceptException(500))
    /\ UNCHANGED <<sales_records, pf_result>>

\* lines 131-147 and main.py line 187
ProcessReturns(j, job, processed, total, errors) ==
    /\ jobs' = [jobs EXCEPT ![j] = CompleteJob(job, errors)]
    /\ calls' = [calls EXCEPT ![j] = [@ EXCEPT !.pc = "done", !.how = "returned",
                                               !.job = CompleteJob(job, errors),
                                               !.processed = processed, !.errors = errors,
                                               !.total = total]]
    /\ pf_result' = ProcessResult(j, processed, total, errors)
    /\ Answer("upload", j, calls[j].upload.file.name, 200)

\* lines 299-310 for a list of records that is not empty: the batch is
\* committed, then the call sleeps; a failing commit is rolled back
SaveRecords(j, acc, total, save_fails) ==
    IF save_fails
    THEN ProcessRaises(j, acc.committed, DatabaseError)
    ELSE /\ sales_records' = sales_records \o acc.processed
         /\ jobs' = [jobs EXCEPT ![j] = acc.job]
         /\ calls' = [calls EXCEPT ![j] = [@ EXCEPT !.pc = "saving", !.job = acc.job,
                                                    !.processed = acc.processed,
                                                    !.errors = acc.errors,
                                                    !.total = total]]
         /\ UNCHANGED <<http, pf_result>>

\* lines 88-129: the table is read and its rows are processed
ProcessRows(j, u, df) ==
    LET counted == [jobs[j] EXCEPT !.records_total = Len(df)]
    IN  \E acc \in { RowLoop([processed |-> <<>>, errors |-> <<>>, job |-> counted,
                               committed |-> counted], df, 1, u.marketplace,
                              IF u.fault = "lookup" THEN 1 ELSE 0) } :
            IF acc.processed = <<>>
            THEN /\ ProcessReturns(j, acc.job, <<>>, Len(df), acc.errors)
                 /\ UNCHANGED sales_records
            ELSE SaveRecords(j, acc, Len(df), u.fault = "save")

\* process_file from the end of file.read() to the next await
UploadRead(j) ==
    /\ calls[j].pc = "reading"
    /\ IF ~calls[j].upload.file.readable
       THEN ProcessRaises(j, jobs[j], ParseError)
       ELSE ProcessRows(j, calls[j].upload, DropEmpty(calls[j].upload.file.rows, 0))
    /\ UNCHANGED <<rest, sku_mappings>>

\* process_file after asyncio.sleep: lines 131-147
UploadFinish(j) ==
    /\ calls[j].pc = "saving"
    /\ ProcessReturns(j, calls[j].job, calls[j].processed, calls[j].total, calls[j].errors)
    /\ UNCHANGED <<rest, sales_records, sku_mappings>>

\* main.py lines 192-206: the status of the answer
get_processing_job(job_id) ==
    IF job_id \notin 1..Len(jobs) THEN ExceptException(404) ELSE 200

GetProcessingJob(job_id) ==
    /\ Answer("get_job", job_id, "", get_processing_job(job_id))
    /\ UNCHANGED <<rest, jobs, calls, sales_records, sku_mappings, pf_result>>

\* .first() of a query
FirstRow(S) == CHOOSE i \in S : \A j \in S : i <= j

MappingRows(mapping_id) == { n \in 1..Len(sku_mappings) : sku_mappings[n].id = mapping_id }

\* main.py lines 138-157
ValidateSkuMapping(mapping_id) ==
    /\ IF MappingRows(mapping_id) = {}
       THEN /\ Answer("validate", 0, mapping_id, ExceptException(404))
            /\ UNCHANGED sku_mappings
       ELSE /\ sku_mappings' = [n \in 1..Len(sku_mappings) |->
                                   IF n = FirstRow(MappingRows(mapping_id))
                                   THEN [sku_mappings[n] EXCEPT !.validated = TRUE,
                                                                !.confidence = F(10)]
                                   ELSE sku_mappings[n]]
            /\ Answer("validate", 0, mapping_id, 200)
    /\ UNCHANGED <<rest, jobs, calls, sales_records, pf_result>>

NextBackend ==
    \/ \E u \in Uploads : UploadBegin(u)
    \/ \E j \in 1..Len(calls) : UploadRead(j)
    \/ \E j \in 1..Len(calls) : UploadFinish(j)
    \/ \E job_id \in {1, MaxJobs + 1} : GetProcessingJob(job_id)
    \/ \E mapping_id \in {"m1", "m9"} : ValidateSkuMapping(mapping_id)

\* the backend starts with the catalog of the product p1
BackendStart == Init /\ products # <<>> /\ products[1].id = "p1"

Backend == BackendStart /\ [][NextBackend]_vars

-----------------------------------------------------------------------------
(* Properties.                                                             *)

MapCalled == pc = "done" /\ op = "map_sku"

MapReturned == MapCalled /\ raised = "none"

BatchCalled == pc = "done" /\ op = "batch_map_skus"

BatchReturned == BatchCalled /\ raised = "none"

Methods == {"automatic", "ai_suggested", "manual", "failed"}

InRange(r) == r.confidence >= 0 /\ r.confidence <= F(10) /\ r.mapping_method \in Methods

IsDictItem(i) == arg_list[i].kind = "dict"

\* the outcome of map_sku for item i of the batch, processed alone
Alone(i) == map_sku(arg_list[i].d.sku, arg_marketplace, db_fail_at = i)

\* processing item i of the batch ends in an exception
ItemRaises(i) ==
    IsDictItem(i) /\ (~HasKey(arg_list[i].d, "sku") \/ Alone(i).raised # "none")

ItemError(i) == IF ~HasKey(arg_list[i].d, "sku") THEN KeyErrorSku ELSE Alone(i).raised

ItemSku(i) == IF HasKey(arg_list[i].d, "sku") THEN arg_list[i].d.sku ELSE NoneStr

\* item i of the batch is malformed: its SKU is empty or blank
EmptySkuItem(i) ==
    /\ IsDictItem(i)
    /\ HasKey(arg_list[i].d, "sku")
    /\ arg_list[i].d.sku # NoneStr
    /\ _clean_sku(arg_list[i].d.sku) = <<>>

AgreesWithAlone(i) ==
    /\ Alone(i).raised = "none"
    /\ \A k \in DOMAIN Alone(i).result :
           HasKey(results[i], k) /\ results[i][k] = Alone(i).result[k]

\* C1: every record returned by map_sku and every record of the list
\* returned by batch_map_skus has confidence in [0,1] and a mapping_method
\* among automatic, ai_suggested, manual, failed, also for batch items that
\* carry extra keys.
C1_ConfidenceAndMethodInRange ==
    /\ MapReturned => InRange(ret)
    /\ BatchReturned => \A i \in 1..Len(results) : InRange(results[i])

\* C2: a result of map_sku with mapping_method automatic has confidence
\* >= 0.9 and a product_id; a mapping without a catalog match is never
\* automatic.
C2_AutomaticNeedsMatch ==
    MapReturned =>
        /\ ret.mapping_method = "automatic" =>
               ret.confidence >= F(9) /\ ret.product_id # "None"
        /\ found.product = NoProduct => ret.mapping_method \in {"ai_suggested", "manual"}

C2_Witness ==
    MapReturned /\ ret.mapping_method = "automatic" /\ ret.confidence = F(9)
    /\ found.by = "fuzzy"

\* C3: map_sku with an empty or whitespace-only SKU returns at once a
\* result with mapping_method failed and confidence 0.0, without any
\* transform, lookup or scoring.
C3_EmptySkuFailsAtOnce ==
    (MapCalled /\ db_fail_at = 0 /\ arg_sku # NoneStr /\ _clean_sku(arg_sku) = <<>>) =>
        /\ raised = "none"
        /\ ret.mapping_method = "failed"
        /\ ret.confidence = 0
        /\ db_log = <<>>

\* C4: a batch of N items in which item k has an empty SKU gives N results,
\* result k marked failed, every other result as map_sku gives it alone.
C4_BatchIsolation ==
    BatchCalled =>
        \A k \in 1..Len(arg_list) :
            EmptySkuItem(k) =>
                /\ raised = "none"
                /\ Len(results) = Len(arg_list)
                /\ results[k].mapping_method = "failed"
                /\ \A i \in 1..Len(arg_list) :
                       (i # k /\ IsDictItem(i) /\ ~ItemRaises(i) /\ ~EmptySkuItem(i))
                           => AgreesWithAlone(i)

\* C5: batch_map_skus never raises, whatever the items are, and returns
\* one entry per input item, in input order.
C5_BatchNeverRaises ==
    BatchCalled =>
        /\ raised = "none"
        /\ Len(results) = Len(arg_list)
        /\ \A i \in 1..Len(results) :
               IF ItemRaises(i)
               THEN results[i].original_sku = ItemSku(i)
               ELSE HasKey(results[i], "sku") /\ results[i].sku = ItemSku(i)

\* C6 as stated: the record of an item that failed with an exception has
\* confidence 0.0, mapping_method failed, and the error message in notes.
C6_ErrorInNotes ==
    BatchReturned =>
        \A i \in 1..Len(results) :
            ItemRaises(i) =>
                /\ results[i].confidence = 0
                /\ results[i].mapping_method = "failed"
                /\ HasKey(results[i], "notes")
                /\ results[i].notes = <<ItemError(i)>>

\* C6 as amended: the record of an item that failed with an exception has
\* confidence 0.0, mapping_method failed, the SKU of the item (None when
\* the key is missing) as original_sku, and the error message under the
\* key error; it has no notes.
C6_ErrorInErrorKey ==
    BatchReturned =>
        \A i \in 1..Len(results) :
            ItemRaises(i) =>
                /\ results[i].confidence = 0
                /\ results[i].mapping_method = "failed"
                /\ results[i].original_sku = ItemSku(i)
                /\ results[i].error = ItemError(i)
                /\ ~HasKey(results[i], "notes")

C6_Witness ==
    /\ BatchReturned
    /\ Len(results) = 2
    /\ ItemRaises(1) /\ results[1].error = DatabaseError
    /\ ~ItemRaises(2) /\ results[2].mapping_method = "automatic"

\* C7: _clean_sku is idempotent: _clean_sku(_clean_sku(x)) = _clean_sku(x)
\* for every string x.
C7_CleanIdempotent ==
    (pc = "done" /\ op = "_clean_sku") => _clean_sku(cleaned) = cleaned

\* C8: when the matched product's sku equals the transformed SKU, map_sku
\* returns confidence exactly 1.0 and mapping_method automatic, whatever
\* the format validity, the rule and the structure of the SKU.
C8_ExactMatchIsCertain ==
    (MapReturned /\ found.product # NoProduct /\ found.product.sku = ret.mapped_sku) =>
        ret.confidence = F(10) /\ ret.mapping_method = "automatic"

C8_Witness ==
    /\ MapReturned
    /\ found.product # NoProduct
    /\ found.product.sku = ret.mapped_sku
    /\ ~validate_sku(arg_sku, arg_marketplace)
    /\ arg_marketplace \notin RuleNames
    /\ Len(arg_sku) < 8
    /\ ret.confidence = F(10)

\* C9: map_sku("B001122334", "amazon") without a catalog match gives
\* mapped_sku AMZ-B001122334, confidence 0.8, mapping_method ai_suggested,
\* a null product_id and an msku WMS-AMA-<hash>.
C9_AsinScenario ==
    (MapReturned /\ arg_sku = SkuAsin /\ arg_marketplace = Amazon
                /\ found.product = NoProduct) =>
        /\ ret.mapped_sku = SkuAmzAsin
        /\ ret.confidence = F(8)
        /\ ret.mapping_method = "ai_suggested"
        /\ ret.product_id = "None"
        /\ ret.msku = <<"W","M","S","-","A","M","A","-">> \o _simple_hash(SkuAmzAsin)

\* C10: if the matched product has an msku, the msku of the result is that
\* msku and not a synthesized WMS-... id, for every marketplace and every
\* way the match was found.
C10_MskuReused ==
    (MapReturned /\ found.product # NoProduct /\ Truthy(found.product.msku)) =>
        ret.msku = found.product.msku

C10_Witness ==
    /\ MapReturned
    /\ found.by = "listing"
    /\ Truthy(found.product.msku)
    /\ ret.msku = found.product.msku
    /\ ~StartsWith(ret.msku, <<"W","M","S","-">>)


\* the canonical id the lookup outcome calls for: the product's msku, else
\* the product's sku, else WMS-<first three letters of the marketplace>-<hash>
ExpectedMsku ==
    IF found.product # NoProduct /\ Truthy(found.product.msku) THEN found.product.msku
    ELSE IF found.product # NoProduct THEN found.product.sku
    ELSE <<"W","M","S","-">> \o Take(Upper(arg_marketplace), 3) \o <<"-">>
         \o _simple_hash(ret.mapped_sku)

\* C11: every result of map_sku whose mapping_method is not failed has a
\* non-empty msku: the matched product's msku if it has one, otherwise the
\* matched product's sku, otherwise a synthesized id.
C11_MskuNonEmpty ==
    (MapReturned /\ ret.mapping_method # "failed") =>
        /\ ret.msku = ExpectedMsku
        /\ ret.msku # NoneStr
        /\ ret.msku # <<>>

\* some row of the catalog answers one of the three exact queries
ExactRowExists ==
    \/ \E n \in 1..Len(products) : products[n].sku = ret.mapped_sku
    \/ \E n \in 1..Len(products) : products[n].msku = ret.mapped_sku
    \/ \E n \in 1..Len(listings) :
           /\ listings[n].marketplace_sku = ret.mapped_sku
           /\ listings[n].platform = arg_marketplace

\* C12: in every result of map_sku, product_id is non-null if and only if
\* the lookup found a catalog product (by exact sku, exact msku, marketplace
\* listing or fuzzy match), and then it is the id of that product.
C12_ProductIdIffFound ==
    MapReturned =>
        /\ ret.product_id # "None" <=>
               (ExactRowExists \/ _fuzzy_match_product(ret.mapped_sku) # NoProduct)
        /\ ret.product_id # "None" =>
               /\ found.product = ProductById(ret.product_id)
               /\ found.by \in {"sku", "msku", "listing", "fuzzy"}
        /\ ret.product_id = "None" => found.by = "none"

C12_Witness ==
    /\ MapReturned
    /\ found.by = "fuzzy"
    /\ ~ExactRowExists
    /\ ret.product_id = found.product.id

ValidateReturned == pc = "done" /\ op = "validate_mapping_batch"

\* the original_sku of mapping m passes format validation for the
\* marketplace m states: it is a string that, stripped and upper-cased, is
\* not empty and matches the pattern of that marketplace, or some pattern
\* when the marketplace is missing or has none
FormatValid(m) ==
    /\ GetStr(m, "original_sku") # NoneStr
    /\ Strip(GetStr(m, "original_sku")) # <<>>
    /\ IF GetStr(m, "marketplace") \in PatternNames
       THEN PatternMatch(GetStr(m, "marketplace"), Upper(Strip(GetStr(m, "original_sku"))))
       ELSE \E name \in PatternNames :
                PatternMatch(name, Upper(Strip(GetStr(m, "original_sku"))))

FormatInvalid(m) == ~FormatValid(m)

LowValid(m) == FormatValid(m) /\ GetConfidence(m) < F(6)

C14_WarningsForLowValid ==
    ValidateReturned =>
        /\ Len(report.warnings) = Len(SelectSeq(arg_mappings, LowValid))
        /\ \A n \in 1..Len(report.warnings) :
               report.warnings[n] =
                   <<"Low confidence mapping for SKU: ",
                     SelectSeq(arg_mappings, LowValid)[n].original_sku>>
        /\ \A n \in 1..Len(arg_mappings) :
               LowValid(arg_mappings[n]) =>
                   \E k \in 1..Len(report.valid) : report.valid[k] = arg_mappings[n]
        /\ (/\ Len(arg_mappings) = 10
            /\ Len(SelectSeq(arg_mappings, FormatInvalid)) = 3
            /\ Len(SelectSeq(arg_mappings, LowValid)) = 2) =>
               /\ Len(report.valid) = 7
               /\ Len(report.invalid) = 3
               /\ Len(report.warnings) = 2
               /\ report.success_rate = [num |-> 7, den |-> 10]

C14_Witness ==
    /\ ValidateReturned
    /\ Len(arg_mappings) = 10
    /\ Len(SelectSeq(arg_mappings, FormatInvalid)) = 3
    /\ Len(SelectSeq(arg_mappings, LowValid)) = 2
    /\ Len(report.warnings) = 2
    /\ Len(report.valid) = 7

\* C15: validate_mapping_batch returns success_rate = (number of valid
\* mappings) / (number of input mappings), and success_rate = 0, without a
\* division fault, when the input batch is empty.
C15_SuccessRate ==
    ValidateReturned =>
        /\ raised = "none"
        /\ report.total_processed = Len(arg_mappings)
        /\ report.success_rate.den > 0
        /\ report.success_rate.num * Len(arg_mappings)
               = report.success_rate.den * Len(SelectSeq(arg_mappings, FormatValid))
        /\ arg_mappings = <<>> => report.success_rate = [num |-> 0, den |-> 1]

C15_Witness ==
    /\ ValidateReturned
    /\ arg_mappings = <<>>
    /\ report.success_rate.num = 0
    /\ report.total_processed = 0

\* the outcome of the call of caller c, run alone on the catalog
RunAlone(c) == map_sku(loc[c].original_sku, loc[c].marketplace, FALSE)

\* C16: map_sku calls have no ordering dependency: in any interleaving of
\* concurrent or repeated calls on an unchanged catalog each call returns
\* what the same call returns when run alone (the same synthesized msku in
\* particular), and no call modifies the catalog, the pattern table or the
\* marketplace rule table.
C16_NoOrderingDependency ==
    /\ [](\A c \in Callers :
              cpc[c] = "done" =>
                  /\ loc[c].outcome.raised = RunAlone(c).raised
                  /\ loc[c].outcome.result = RunAlone(c).result)
    /\ [][/\ products' = products
          /\ listings' = listings
          /\ patterns' = patterns
          /\ marketplace_rules' = marketplace_rules]_vars

C16_Witness ==
    /\ cpc[1] = "done"
    /\ cpc[2] = "l60"
    /\ loc[1].original_sku # loc[2].original_sku
    /\ loc[1].marketplace # loc[2].marketplace
    /\ loc[1].outcome.result.product_id = "None"
    /\ StartsWith(loc[1].outcome.result.msku, <<"W","M","S","-">>)
    /\ loc[1].outcome.result = RunAlone(1).result

\* C17: the original_sku of every mapping result is the raw SKU string that
\* was passed in; in batch mode this holds for every successful item
\* whatever additional keys the input item carries.
C17_OriginalSkuIsRawInput ==
    /\ MapReturned => ret.original_sku = arg_sku
    /\ BatchReturned =>
           \A i \in 1..Len(results) :
               (IsDictItem(i) /\ ~ItemRaises(i)) =>
                   results[i].original_sku = arg_list[i].d.sku

\* C18: the method is automatic if a product was matched and confidence >=
\* 0.9, otherwise ai_suggested if confidence >= 0.7, otherwise manual; hence
\* every result with mapping_method manual has confidence < 0.7.
C18_MethodSelection ==
    MapReturned =>
        /\ ret.mapping_method =
               IF found.product # NoProduct /\ ret.confidence >= F(9) THEN "automatic"
               ELSE IF ret.confidence >= F(7) THEN "ai_suggested"
               ELSE "manual"
        /\ ret.mapping_method = "manual" => ret.confidence < F(7)

C18_Witness ==
    /\ MapReturned
    /\ found.product # NoProduct
    /\ ret.confidence = F(8)
    /\ ret.mapping_method = "ai_suggested"

\* w if b, else 0.0
Weight(b, w) == IF b THEN w ELSE 0

\* min(1.0, 0.5 + 0.2*v + 0.3*m + 0.1*r + 0.1*h), the sum taken from left to
\* right in binary64
AdditiveScore(v, m, r, h) ==
    FloatMin(F(10),
             FloatAdd(FloatAdd(FloatAdd(FloatAdd(F(5), Weight(v, F(2))), Weight(m, F(3))),
                               Weight(r, F(1))),
                      Weight(h, F(1))))

\* C19: confidence is min(1.0, 0.5 + 0.2*[original_sku validates against the
\* marketplace's (or any) pattern] + 0.3*[a catalog match was found] +
\* 0.1*[the marketplace has a registered rule, whether or not the rule
\* changed the SKU] + 0.1*[original_sku has length >= 8 and contains a
\* hyphen]), except in the exact-match case, where it is 1.0.
C19_AdditiveConfidence ==
    MapReturned =>
        ret.confidence =
            IF found.product # NoProduct /\ found.product.sku = ret.mapped_sku
            THEN F(10)
            ELSE AdditiveScore(FormatValid([original_sku |-> arg_sku,
                                            marketplace |-> arg_marketplace]),
                               found.product # NoProduct,
                               arg_marketplace \in RuleNames,
                               Len(arg_sku) >= 8 /\ HasHyphen(arg_sku))

C19_Witness ==
    /\ MapReturned
    /\ arg_marketplace \in RuleNames
    /\ ret.mapped_sku = _clean_sku(arg_sku)
    /\ found.product = NoProduct
    /\ ~FormatValid([original_sku |-> arg_sku, marketplace |-> arg_marketplace])
    /\ ret.confidence = F(6)

\* C20: the output of _clean_sku contains only upper-case alphanumeric
\* characters and hyphens: every other character, underscores and quote
\* characters included, is removed.
C20_CleanOutputAlphabet ==
    (pc = "done" /\ op = "_clean_sku") =>
        \A i \in 1..Len(cleaned) : cleaned[i] \in AZ09 \cup {"-"}

-----------------------------------------------------------------------------
(* The marketplace transform table.                                        *)

RulesApplied == pc = "done" /\ op = "_apply_marketplace_rules"

AsciiAlnum(c) == IsUpperAZ(c) \/ IsLowerAZ(c) \/ IsDigit(c)

AsinShape(s) == Len(s) = 10 /\ s[1] = "B"

TwelveDigits(s) == Len(s) = 12 /\ \A i \in 1..12 : IsDigit(s[i])

WalmartShape(s) ==
    Len(s) \in 8..15 /\ \A i \in 1..Len(s) : IsUpperAZ(s[i]) \/ IsDigit(s[i])

\* C21: the transform is a total function that follows the rule table:
\* amazon prefixes AMZ- iff the input starts with B and has length 10, ebay
\* gives EBY- and the last 8 digits iff the input is exactly 12 digits,
\* walmart prefixes WMT- iff the input is 8 to 15 upper-case alphanumerics,
\* shopify drops what is neither alphanumeric nor a hyphen and prefixes
\* SHO-; every other input, and every input of a marketplace without a
\* rule, comes back unchanged, and nothing is raised.
C21_TransformRuleTable ==
    RulesApplied =>
        /\ raised = "none"
        /\ arg_marketplace = Amazon =>
               transformed = IF AsinShape(arg_sku) THEN <<"A","M","Z","-">> \o arg_sku
                             ELSE arg_sku
        /\ arg_marketplace = Ebay =>
               transformed = IF TwelveDigits(arg_sku)
                             THEN <<"E","B","Y","-">> \o [i \in 1..8 |-> arg_sku[i + 4]]
                             ELSE arg_sku
        /\ arg_marketplace = Walmart =>
               transformed = IF WalmartShape(arg_sku) THEN <<"W","M","T","-">> \o arg_sku
                             ELSE arg_sku
        /\ arg_marketplace = Shopify =>
               transformed = <<"S","H","O","-">> \o
                                 SelectSeq(arg_sku, LAMBDA c : AsciiAlnum(c) \/ c = "-")
        /\ arg_marketplace \notin {Amazon, Ebay, Walmart, Shopify} => transformed = arg_sku

\* the eBay rule has rewritten a 12-digit item id whose first and last 8
\* digits differ
C21_Witness ==
    /\ RulesApplied
    /\ arg_marketplace = Ebay
    /\ TwelveDigits(arg_sku)
    /\ SubSeq(arg_sku, 1, 8) # SubSeq(arg_sku, 5, 12)
    /\ transformed = <<"E","B","Y","-">> \o SubSeq(arg_sku, 5, 12)

-----------------------------------------------------------------------------
(* Product lookup.                                                         *)

SkuRows(x) == { i \in 1..Len(products) : products[i].sku = x }

MskuRows(x) == { i \in 1..Len(products) : products[i].msku = x }

ListingRows(x, m) ==
    { i \in 1..Len(listings) : listings[i].marketplace_sku = x /\ listings[i].platform = m }

Lowest(S) == CHOOSE i \in S : \A j \in S : i <= j

\* C22: the lookup asks for an exact sku, then an exact msku, then a
\* listing of the marketplace, then a fuzzy match; the first step that hits
\* gives the product and no later query is sent, so a product with that
\* exact sku wins over any other product matching by msku, listing or
\* similarity.
C22_LookupOrder ==
    MapReturned =>
        LET x == ret.mapped_sku
            m == arg_marketplace
        IN  /\ SkuRows(x) # {} =>
                   /\ found.product = products[Lowest(SkuRows(x))]
                   /\ db_log = <<"sku">>
            /\ (SkuRows(x) = {} /\ MskuRows(x) # {}) =>
                   /\ found.product = products[Lowest(MskuRows(x))]
                   /\ db_log = <<"sku", "msku">>
            /\ (SkuRows(x) = {} /\ MskuRows(x) = {} /\ ListingRows(x, m) # {}) =>
                   /\ found.product.id = listings[Lowest(ListingRows(x, m))].product_id
                   /\ db_log = <<"sku", "msku", "listing">>
            /\ (SkuRows(x) = {} /\ MskuRows(x) = {} /\ ListingRows(x, m) = {}) =>
                   /\ found.product = _fuzzy_match_product(x)
                   /\ db_log = <<"sku", "msku", "listing", "all">>

\* a product was returned for its exact sku while another product carries
\* the same string as its msku
C22_Witness ==
    /\ MapReturned
    /\ found.by = "sku"
    /\ found.product.sku = ret.mapped_sku
    /\ \E i \in MskuRows(ret.mapped_sku) : products[i] # found.product

-----------------------------------------------------------------------------
(* Fuzzy lookup.                                                           *)

\* the lookup of this call went as far as the fuzzy step
FuzzyAsked == MapReturned /\ found.by \in {"fuzzy", "none"} /\ products # <<>>

Similarity(x, choice) == fuzz_ratio(full_process(x), full_process(choice))

\* the best score among the products' skus, -1 if there is none
BestSkuScore(x) ==
    MaxOf({-1} \cup { Similarity(x, products[i].sku) :
                          i \in { j \in 1..Len(products) : Truthy(products[j].sku) } })

BestMskuScore(x) ==
    MaxOf({-1} \cup { Similarity(x, products[i].msku) :
                          i \in { j \in 1..Len(products) : Truthy(products[j].msku) } })

\* C23: the fuzzy step returns a product iff the best score is at least 80;
\* if a sku candidate reaches 80 the product of a best sku candidate is
\* returned, whatever the msku candidates score; an msku candidate's
\* product is returned only if no sku candidate reaches 80.
C23_FuzzyThreshold ==
    FuzzyAsked =>
        LET x == ret.mapped_sku
            sb == BestSkuScore(x)
            mb == BestMskuScore(x)
        IN  /\ (found.product # NoProduct) <=> (sb >= 80 \/ mb >= 80)
            /\ sb >= 80 =>
                   Truthy(found.product.sku) /\ Similarity(x, found.product.sku) = sb
            /\ (sb < 80 /\ mb >= 80) =>
                   Truthy(found.product.msku) /\ Similarity(x, found.product.msku) = mb

\* a sku candidate of score exactly 80 was accepted
C23_Witness ==
    /\ FuzzyAsked
    /\ BestSkuScore(ret.mapped_sku) = 80
    /\ found.by = "fuzzy"
    /\ Similarity(ret.mapped_sku, found.product.sku) = 80

\* a best score of exactly 79 was refused
C23_SeventyNineRefused ==
    /\ FuzzyAsked
    /\ MaxOf({BestSkuScore(ret.mapped_sku), BestMskuScore(ret.mapped_sku)}) = 79
    /\ found.product = NoProduct

\* the sku candidate was returned although an msku candidate scores higher
C23_SkuPreferred ==
    /\ FuzzyAsked
    /\ BestSkuScore(ret.mapped_sku) >= 80
    /\ BestMskuScore(ret.mapped_sku) > BestSkuScore(ret.mapped_sku)
    /\ Similarity(ret.mapped_sku, found.product.sku) = BestSkuScore(ret.mapped_sku)

\* an msku candidate was returned, no sku candidate reaching 80
C23_MskuFallback ==
    /\ FuzzyAsked
    /\ BestSkuScore(ret.mapped_sku) < 80
    /\ found.by = "fuzzy"

-----------------------------------------------------------------------------
(* The synthesized canonical id.                                           *)

Synthesized == MapReturned /\ found.product = NoProduct

\* what follows WMS-XXX- in a synthesized id
HashPart(msku, marketplace) ==
    SubSeq(msku, 5 + Len(Take(Upper(marketplace), 3)) + 1, Len(msku))

\* C24: without a match the msku is WMS-, the first 3 letters of the
\* marketplace in upper case, a hyphen, and exactly 6 hexadecimal digits of
\* the rolling hash of the transformed SKU, left-padded or truncated to 6,
\* also for the empty string and for strings of one or two characters.
C24_SixHexDigits ==
    Synthesized =>
        /\ ret.msku = <<"W","M","S","-">> \o Take(Upper(arg_marketplace), 3) \o <<"-">>
                          \o HashPart(ret.msku, arg_marketplace)
        /\ Len(HashPart(ret.msku, arg_marketplace)) = 6
        /\ \A i \in 1..6 : HashPart(ret.msku, arg_marketplace)[i] \in RangeOf(HexDigits)

-----------------------------------------------------------------------------
(* Notes and method.                                                       *)

HighTier == "High confidence automatic mapping"

LowTier == "Low confidence mapping - manual review required"

\* C25: in every result of map_sku the notes begin with the high tier iff
\* the method is automatic, never together with "No existing product match
\* found", and begin with the low tier iff the method is manual.
C25_NotesAgreeWithMethod ==
    MapReturned =>
        /\ (ret.notes[1] = HighTier) <=> (ret.mapping_method = "automatic")
        /\ ~(ret.notes[1] = HighTier /\ ret.notes[3] = "No existing product match found")
        /\ (ret.notes[1] = LowTier) <=> (ret.mapping_method = "manual")

\* every bonus but the match was added, and the sum stays below 0.9: the
\* notes and the method both say AI suggested
C25_Witness ==
    /\ Synthesized
    /\ ret.confidence = F(9) - 1
    /\ ret.mapping_method = "ai_suggested"
    /\ ret.notes[1] = "AI suggested mapping - review recommended"
    /\ ret.notes[3] = "No existing product match found"

-----------------------------------------------------------------------------
(* The desktop mapper's tables.                                            *)

Listed(m) == { reverse_mapping[m][i] : i \in 1..Len(reverse_mapping[m]) }

\* C29: after any sequence of load_mapping_data calls a SKU s is listed in
\* reverse_mapping[m] iff mapping_data[s] = m, no SKU is listed under two
\* MSKUs and no list has a duplicate entry, also when a later row or file
\* maps a loaded SKU to another MSKU.
C29_TablesAgree ==
    /\ \A m \in DOMAIN reverse_mapping :
           /\ \A s \in Listed(m) : s \in DOMAIN mapping_data /\ mapping_data[s] = m
           /\ Cardinality(Listed(m)) = Len(reverse_mapping[m])
    /\ \A s \in DOMAIN mapping_data :
           /\ mapping_data[s] \in DOMAIN reverse_mapping
           /\ s \in Listed(mapping_data[s])

-----------------------------------------------------------------------------
(* The web upload API.                                                     *)

\* a sales upload has just been answered with success for a session id
\* that was not a session when the request came
SalesUnderUnknownId ==
    /\ web_resp' # web_resp
    /\ web_resp'.endpoint = "sales"
    /\ web_resp'.status = 200
    /\ web_resp'.supplied \notin DOMAIN sessions

\* C28: /api/results and /api/export succeed for a session id only after
\* /api/process succeeded for it; /api/process succeeds only when a mapping
\* file and a sales file have been uploaded under that session id; a sales
\* upload naming an unknown session id is stored under a newly generated
\* id, not under the one supplied.
C28_SessionProtocol ==
    /\ [](/\ (web_resp.endpoint \in {"results", "export"} /\ web_resp.status = 200)
                 => web_resp.supplied \in processed_ok
          /\ \A id \in processed_ok : id \in stored_mapping /\ id \in stored_sales)
    /\ [][SalesUnderUnknownId =>
             /\ web_resp'.session_id # web_resp'.supplied
             /\ web_resp'.session_id \notin DOMAIN sessions
             /\ "sales_file" \in sessions'[web_resp'.session_id]
             /\ web_resp'.supplied \notin DOMAIN sessions']_vars

\* results were served for a session that was processed after both of
\* its uploads
C28_Witness ==
    /\ web_resp.endpoint = "results"
    /\ web_resp.status = 200
    /\ web_resp.supplied \in processed_ok
    /\ web_resp.supplied \in stored_mapping \cap stored_sales

\* a sales upload that named a string of the client's own was answered
\* with a generated id
C28_SalesRenamed ==
    /\ web_resp.endpoint = "sales"
    /\ web_resp.status = 200
    /\ web_resp.supplied = "abc"
    /\ web_resp.session_id # "abc"
    /\ "abc" \notin DOMAIN sessions

\* process_file has ended for job j
CallEnded(j) == calls[j].how \in {"returned", "raised"}

\* C26: a job's status follows processing -> completed | failed: when
\* process_file returns the job is completed with progress 100, when it
\* raises the job is failed with the error recorded, a job that is completed
\* or failed is never set back to processing, and no job whose process_file
\* call has ended is left in status processing.
C26_JobStatusProtocol ==
    /\ [](\A j \in 1..Len(jobs) :
            /\ jobs[j].status \in {"processing", "completed", "failed"}
            /\ calls[j].how = "returned"
                  => jobs[j].status = "completed" /\ jobs[j].progress = 100
            /\ calls[j].how = "raised"
                  => jobs[j].status = "failed" /\ jobs[j].errors = <<calls[j].error>>
            /\ CallEnded(j) => jobs[j].status # "processing")
    /\ [][\A j \in 1..Len(jobs) :
            jobs[j].status \in {"completed", "failed"} => jobs'[j].status # "processing"]_vars

\* the same for the jobs whose query (line 77) did not raise
C26_ProtocolOnceJobIsBound ==
    /\ [](\A j \in 1..Len(jobs) :
            calls[j].upload.fault # "job" =>
                /\ calls[j].how = "returned"
                      => jobs[j].status = "completed" /\ jobs[j].progress = 100
                /\ calls[j].how = "raised"
                      => jobs[j].status = "failed" /\ jobs[j].errors = <<calls[j].error>>
                /\ calls[j].how = "running" <=> jobs[j].status = "processing")
    /\ [][\A j \in 1..Len(jobs) :
            jobs[j].status \in {"completed", "failed"} => jobs'[j].status = jobs[j].status]_vars

\* one job was completed by a call that returned, another was failed by a
\* call that raised while saving
C26_BothEnds ==
    \E j, k \in 1..Len(jobs) :
        /\ calls[j].how = "returned" /\ jobs[j].status = "completed"
        /\ calls[k].how = "raised" /\ jobs[k].status = "failed"
        /\ calls[k].upload.fault = "save"

\* the rows of a file that left an error entry
RejectedRows(errors) == { errors[n].row : n \in 1..Len(errors) }

\* C27: a row that fails validation or whose mapping raises is recorded as
\* an error and does not stop the remaining rows; when the job completes
\* every row is accounted for once, as a saved record or by its error
\* entries, so that records_processed + (number of rejected rows) =
\* records_total.
C27_RowsAccounted ==
    \A j \in 1..Len(jobs) :
        jobs[j].status = "completed" =>
            jobs[j].records_processed + Cardinality(RejectedRows(jobs[j].errors))
                = jobs[j].records_total

\* the dictionary process_file returns: its counts add up and its rate
\* is saved records / total rows, 0 for a file without rows
C27_ResultAccounted ==
    /\ pf_result.records_processed + Cardinality(RejectedRows(pf_result.errors))
           = pf_result.records_total
    /\ \A j \in 1..Len(jobs) :
           calls[j].how = "returned" =>
               /\ Len(calls[j].processed) + Cardinality(RejectedRows(jobs[j].errors))
                      = jobs[j].records_total
               /\ pf_result.job_id = j =>
                      /\ pf_result.records_processed = Len(calls[j].processed)
                      /\ pf_result.success_rate =
                             IF jobs[j].records_total = 0 THEN Zero
                             ELSE FloatDiv(Len(calls[j].processed), jobs[j].records_total)

\* a job completed with a saved record after rows that were rejected for a
\* lookup that raised, a record that could not be made and a validation
C27_SavedAfterRejected ==
    \E j \in 1..Len(jobs) :
        /\ jobs[j].status = "completed"
        /\ RejectedRows(jobs[j].errors) = {1, 2, 3}
        /\ Len(calls[j].processed) = 1
        /\ jobs[j].records_total = 4

UnknownJobAsked == http.endpoint = "get_job" /\ http.id \notin 1..Len(jobs)

UnknownMappingAsked == http.endpoint = "validate" /\ MappingRows(http.name) = {}

UnsupportedUploaded == http.endpoint = "upload" /\ ~SupportedName(http.name)

\* C30: a request that names a mapping id or a job id that does not exist
\* is answered 404, an upload with an unsupported file extension is
\* answered 400; these client errors are not turned into 500 responses.
C30_ClientErrorsKept ==
    /\ (UnknownJobAsked \/ UnknownMappingAsked) => http.status = 404
    /\ UnsupportedUploaded => http.status = 400

\* the answer to such a request changes no stored state
C30_StoredStateKept ==
    [][(http' # http /\ (UnknownJobAsked' \/ UnknownMappingAsked' \/ UnsupportedUploaded'))
          => UNCHANGED <<jobs, sales_records, sku_mappings>>]_vars

\* what the code answers instead
C30_AnsweredServerError ==
    (UnknownJobAsked \/ UnknownMappingAsked \/ UnsupportedUploaded) => http.status = 500

====
